---- MODULE Spec2Model ----
(***************************************************************************)
(* Threshold signing client (keypuzzlewallet/tss): the online signers of   *)
(* the ECDSA (gg20) and EdDSA (t_ed25519) schemes and the keygen/offline   *)
(* orchestrator.  The curve arithmetic lives in external crates; a partial *)
(* signature is modelled by what it was computed from (signer, scheme,     *)
(* message, offline slot) and the combiners by whether those inputs fit    *)
(* together.                                                               *)
(***************************************************************************)
EXTENDS Integers, Sequences, FiniteSets, TLC

(* ------------------------------ bounds --------------------------------- *)
\* number of parties n of the wallet
N == 2
\* number of distinct messages a caller may ask to sign
NumMsgs == 2
\* length of completed_offline in a party's EdDSA nonce batch
BatchLen == 1
\* largest nonce_start_index of a nonce batch
MaxStart == 1
\* party indices start at 1
FirstParty == 1
\* signing requests after the first that the history follows
MaxRequests == 1
\* largest number of parties n an orchestrated keygen is run with
MaxN == 3
\* largest party index whose offline room name is compared
RoomIdMax == 12
\* largest batch size a caller asks generate_dynamic_nonces for
MaxBatch == 2
\* latest millisecond the clock read by encrypt reaches
MaxClock == 2
\* longest plaintext handed to encrypt
MaxPlain == 2
\* longest envelope string handed to decrypt from outside
MaxEnvelope == 3
\* number of passwords
NumPasswords == 2
\* largest number of parties n an EdDSA engine driven on its own is constructed for
EngN == 2
\* largest number of parties n of an EdDSA keygen or offline run
RunN == 3
\* largest number of nonces K an offline engine is asked for
MaxNonces == 1
\* pick_output results counted per engine
MaxPicks == 2
\* largest number of parties n one party's rounds are run for on their own
RoundN == 4
\* largest number of nonces K one party's offline rounds are run for
MaxK == 2

Parties == FirstParty..N
Msgs == 1..NumMsgs
Thresholds == 1..(N - 1)
\* nonce values a caller may pass: below, inside and just past every batch
Nonces == 0..(MaxStart + BatchLen)
\* nonce values tried against generated batches
BatchNonces == 0..(MaxStart + 2 * MaxBatch)
\* u16 arithmetic
U16Mod == 2^16
\* usize arithmetic wraps modulo the pointer width in builds without overflow
\* checks; the modulus is scaled to the model checker's integers
UsizeMod == 2^30

VARIABLES
    t, n, signing_parts, signature,  \* SigningState
    nonce_start_index,               \* EddsaOfflineResult.nonce_start_index
    completed_offline,               \* length of EddsaOfflineResult.completed_offline
    op, result,                      \* the last call and its outcome
    request, nonce_uses              \* history: request number, uses of batch entries

histVars == <<request, nonce_uses>>
signVars == <<t, n, signing_parts, signature, nonce_start_index, completed_offline,
              op, result, histVars>>

VARIABLE batches                     \* history: the generate_dynamic_nonces calls
batchVars == <<batches>>

VARIABLES
    rust_t, rust_n,                  \* keygen_and_offline arguments
    pc,                              \* where each party's orchestrator stands
    progress,                        \* offline runs each party has completed
    ecdsa_offline_data,              \* each party's Vec<EcdsaOfflineResult>
    joined                           \* history: the join_computation calls of each party

orchVars == <<rust_t, rust_n, pc, progress, ecdsa_offline_data, joined>>
VARIABLES
    clock,                           \* milliseconds since the epoch
    envelope,                        \* the envelope string last produced or supplied
    origin,                          \* history: what envelope was encrypted from
    bundle,                          \* EncryptedLocalKey: encrypted_key, encrypted_nonce
    bundle_origin,                   \* history: what bundle was encrypted from
    enc_call                         \* the last envelope operation and its outcome

encVars == <<clock, envelope, origin, bundle, bundle_origin, enc_call>>

VARIABLES
    engines,                         \* the EddsaKeygen / EddsaOfflineGen of each party
    wire,                            \* messages taken from a message_queue, per recipient
    picked,                          \* history: outputs pick_output handed out, per party
    eng_call                         \* the last engine operation and what it returned

engVars == <<engines, wire, picked, eng_call>>

VARIABLES
    state_base64,                    \* the SigningStateBase64 the caller holds
    sign_call                        \* the last Sign request and what it returned

dispVars == <<state_base64, sign_call>>

VARIABLE party_round                 \* one party's Round0 / Round1 / Round2 and its output

roundVars == <<party_round>>

\* the components a specification leaves alone
restVars == <<orchVars, encVars, engVars, dispVars, roundVars>>
notSign == <<batchVars, restVars>>
notDispatch == <<batchVars, orchVars, encVars, engVars, roundVars>>
notOrch == <<signVars, batchVars, encVars, engVars, dispVars, roundVars>>
notEnc == <<signVars, batchVars, orchVars, engVars, dispVars, roundVars>>
notEng == <<signVars, batchVars, orchVars, encVars, dispVars, roundVars>>
vars == <<signVars, batchVars, orchVars, encVars, engVars, dispVars, roundVars>>
notRound == <<signVars, batchVars, orchVars, encVars, engVars, dispVars>>

None == [present |-> FALSE]

(* ------------------------------ helpers -------------------------------- *)
SetOf(s) == {s[i] : i \in DOMAIN s}

Min(S) == CHOOSE x \in S : \A y \in S : x <= y

Bit(i, j) == (i \div (2^j)) % 2

RECURSIVE SubsetFrom(_, _, _)
SubsetFrom(s, i, j) ==
    IF j > Len(s) THEN <<>>
    ELSE (IF Bit(i, j - 1) = 1 THEN <<s[j]>> ELSE <<>>) \o SubsetFrom(s, i, j + 1)

\* mutant: the last mask, the full slice, is left out
powerset_short(s) == [k \in 1..(2^Len(s) - 1) |-> SubsetFrom(s, k - 1, 1)]

\* utils::common::powerset: mask i in 0..2^len-1 selects element j iff bit j is set
powerset(s) == [k \in 1..(2^Len(s)) |-> SubsetFrom(s, k - 1, 1)]

RECURSIVE Insert(_, _)
Insert(x, s) ==
    IF s = <<>> THEN <<x>>
    ELSE IF x <= Head(s) THEN <<x>> \o s
    ELSE <<Head(s)>> \o Insert(x, Tail(s))

RECURSIVE Sort(_)
Sort(s) == IF s = <<>> THEN <<>> ELSE Insert(Head(s), Sort(Tail(s)))

all_parties(nn) == [i \in 1..nn |-> i]

\* all_keygen: the subsets of size t+1 containing party_id, in powerset order
all_subsets_parties(party_id, tt, nn) ==
    SelectSeq(powerset(all_parties(nn)),
              LAMBDA subset : Len(subset) = tt + 1 /\ party_id \in SetOf(subset))

\* the ecdsa offline_data a finished orchestrator run leaves with party_id
finished_offline_data(party_id, tt, nn) ==
    LET subs == all_subsets_parties(party_id, tt, nn)
    IN [k \in DOMAIN subs |-> [parties |-> Sort(subs[k])]]

\* EcdsaLocalKeyData.offline_data of every party's key, per threshold
OfflineData == [p \in Parties, tt \in Thresholds |-> finished_offline_data(p, tt, N)]

(* --------------------------- signing state ----------------------------- *)
\* a SignedPartialSignature: who signed, the PartialSignatureType variant, and
\* what the external crate computed it from (the message and the offline slot:
\* the party set of the ECDSA offline stage, the index of the EdDSA batch entry)
Partial(party_id, scheme, msg, slot) ==
    [party_id |-> party_id, scheme |-> scheme, msg |-> msg, slot |-> slot]

\* Some(SignatureRecidHex): good records whether the (r, s) pair is a valid
\* signature of msg under the shared public key
Some(scheme, msg, good) ==
    [present |-> TRUE, scheme |-> scheme, msg |-> msg, good |-> good]

PartyIds(parts) == {parts[i].party_id : i \in DOMAIN parts}

\* mutants of the guard: off by one, and absent
already_signed_late(parts, tt) == Len(parts) > tt + 1

already_signed_never(parts, tt) == FALSE

\* the first guard of both sign functions: "this already full signed"
already_signed(parts, tt) == Len(parts) > tt

\* mutant: the combine branch is entered one partial early
last_part_early(parts, tt) == Len(parts) > tt - 2

\* the guard of the combine branch: this call supplies the last partial
last_part(parts, tt) == Len(parts) > tt - 1

\* Iterator::find over offline_data with HashSet equality; 0 stands for None
find_offline(offline_data, signers) ==
    LET hits == {k \in DOMAIN offline_data :
                    SetOf(signers) = SetOf(offline_data[k].parties)}
    IN IF hits = {} THEN 0 ELSE Min(hits)

\* the partials fit together: one message, one offline stage, and exactly the
\* parties of that stage, each once
ecdsa_consistent(parts) ==
    /\ \A i \in DOMAIN parts : parts[i].msg = parts[1].msg /\ parts[i].slot = parts[1].slot
    /\ PartyIds(parts) = parts[1].slot
    /\ Cardinality(PartyIds(parts)) = Len(parts)

\* SignManual::complete (external): partials that fit give a valid signature;
\* otherwise the crate may reject them or hand back an invalid signature
complete_outcomes(parts) ==
    IF ecdsa_consistent(parts) THEN {"good"} ELSE {"OnlineStageFailed", "bad"}

\* every share was computed for one message from the batch entry `entry`
shares_fit(parts, entry) ==
    \A i \in DOMAIN parts : parts[i].msg = parts[1].msg /\ parts[i].slot = entry

\* LocalSig::verify_local_sigs then thresholdsig::generate (external): shares
\* that do not fit may be rejected or summed into an invalid signature; fitting
\* shares of a repeated party pass the share check, and the interpolation over
\* a repeated index may abort or give an invalid signature
eddsa_outcomes(parts, entry) ==
    IF ~shares_fit(parts, entry) THEN {"VerifyLocalSigFailed", "bad"}
    ELSE IF Cardinality(PartyIds(parts)) # Len(parts) THEN {"Panic", "bad"}
    ELSE {"good"}

\* mutant: the result of the final verification is dropped
verify_result_ignored(sig, msg) == "Ok"

\* the match on party_i::verify / Signature::verify that ends the combine branch
verify_result(sig, msg) ==
    IF sig.good /\ sig.msg = msg THEN "Ok" ELSE "SignatureVerificationFailed"

\* the batch entry the combine step of the EdDSA signer indexes
combine_entry(nonce, nonce_index) == nonce

Return(r) == result' = r /\ UNCHANGED <<signing_parts, signature>>

InitSign ==
    /\ t \in Thresholds
    /\ n = N
    /\ signing_parts = <<>>
    /\ signature = None
    /\ nonce_start_index \in 0..MaxStart
    /\ completed_offline = BatchLen
    /\ op = "none"
    /\ result = "none"
    /\ request = 0
    /\ nonce_uses = [k \in 0..(BatchLen - 1) |-> {}]

\* gg20::signing::sign called with party p's local key (party_id = p)
gg20_sign(p, m, signers) ==
    /\ result # "Panic"
    /\ op' = "ecdsa"
    /\ UNCHANGED <<t, n, nonce_start_index, completed_offline>>
    /\ IF already_signed(signing_parts, t) THEN Return("AlreadySigned")
       ELSE LET od == OfflineData[p, t]
                k == find_offline(od, signers)
            IN IF k = 0 THEN Return("Panic")  \* Option::unwrap on None
               ELSE LET part == Partial(p, "ECDSA", m, SetOf(od[k].parties))
                        all == Append(signing_parts, part)
                    IN IF last_part(signing_parts, t)
                       THEN IF \E i \in DOMAIN signing_parts : signing_parts[i].scheme # "ECDSA"
                            THEN Return("Panic")  \* panic!("wrong signature type")
                            ELSE \E outcome \in complete_outcomes(all) :
                                   IF outcome = "OnlineStageFailed" THEN Return(outcome)
                                   ELSE /\ signing_parts' = all
                                        /\ signature' = Some("ECDSA", m, outcome = "good")
                                        /\ result' = verify_result(signature', m)
                       ELSE /\ signing_parts' = all
                            /\ signature' = signature
                            /\ result' = "Ok"

\* mutant: the upper end of the range is tested with > instead of >=
range_check_wide(nonce, start, len, overflow_checks) ==
    IF nonce - start < 0 /\ overflow_checks THEN "Panic"
    ELSE IF (nonce - start) % UsizeMod > len THEN "NonceOutOfRange"
    ELSE "InRange"

\* the nonce test of the EdDSA signer: nonce_index = nonce - nonce_start_index
\* in usize (an abort on underflow in builds that check overflow, a wrap
\* otherwise), then nonce_index >= completed_offline.len() is out of range
range_check(nonce, start, len, overflow_checks) ==
    IF nonce - start < 0 /\ overflow_checks THEN "Panic"
    ELSE IF (nonce - start) % UsizeMod >= len THEN "NonceOutOfRange"
    ELSE "InRange"

\* t_ed25519::signing::sign called with party p's local key (party_id = p)
t_ed25519_sign(p, m, nonce) ==
    /\ result # "Panic"
    /\ op' = "eddsa"
    /\ UNCHANGED <<t, n, nonce_start_index, completed_offline>>
    /\ IF already_signed(signing_parts, t) THEN Return("AlreadySigned")
       ELSE \E overflow_checks \in BOOLEAN :
            LET nonce_index == (nonce - nonce_start_index) % UsizeMod
                check == range_check(nonce, nonce_start_index, completed_offline,
                                     overflow_checks)
            IN IF check # "InRange"
               THEN Return(check)
               ELSE LET part == Partial(p, "EDDSA", m, nonce_index)
                        all == Append(signing_parts, part)
                        entry == combine_entry(nonce, nonce_index)
                    IN /\ signing_parts' = all
                       /\ IF last_part(signing_parts, t)
                          THEN IF \E i \in DOMAIN all : all[i].scheme # "EDDSA"
                               THEN result' = "Panic" /\ signature' = signature
                               ELSE IF entry >= completed_offline  \* completed_offline[nonce]
                               THEN result' = "Panic" /\ signature' = signature
                               ELSE \E outcome \in eddsa_outcomes(all, entry) :
                                      IF outcome \in {"VerifyLocalSigFailed", "Panic"}
                                      THEN result' = outcome /\ signature' = signature
                                      ELSE /\ signature' = Some("EDDSA", m, outcome = "good")
                                           /\ result' = verify_result(signature', m)
                          ELSE result' = "Ok" /\ signature' = signature

\* the caller starts the next signing request with a fresh state
NewRequest ==
    /\ result # "Panic"
    /\ signing_parts # <<>>
    /\ op' = "new"
    /\ signing_parts' = <<>>
    /\ signature' = None
    /\ result' = "none"
    /\ UNCHANGED <<t, n, nonce_start_index, completed_offline>>

\* LocalSig::compute is reached: the call computes a partial from a batch entry
computes_partial(nonce) ==
    /\ ~already_signed(signing_parts, t)
    /\ nonce >= nonce_start_index
    /\ nonce - nonce_start_index < completed_offline

\* history of the batch of party FirstParty: the (request, message) pairs each
\* entry produced a partial signature for
RecordUse(p, m, nonce) ==
    /\ request' = request
    /\ nonce_uses' =
          IF p = FirstParty /\ computes_partial(nonce)
          THEN [nonce_uses EXCEPT ![nonce - nonce_start_index] = @ \cup {<<request, m>>}]
          ELSE nonce_uses

RECURSIVE Ascending(_)
Ascending(S) == IF S = {} THEN <<>> ELSE <<Min(S)>> \o Ascending(S \ {Min(S)})

Reverse(s) == [i \in DOMAIN s |-> s[Len(s) + 1 - i]]

\* signer lists a caller may pass: every non-empty set of parties in ascending
\* order, in descending order, and with a repeated member
SignerLists ==
    UNION {{Ascending(S), Reverse(Ascending(S)), Ascending(S) \o <<Min(S)>>} :
           S \in (SUBSET Parties) \ {{}}}

EcdsaCall == \E p \in Parties, m \in Msgs, signers \in SignerLists : gg20_sign(p, m, signers)




(* ----------------------------- nonce batches --------------------------- *)
\* the EddsaOfflineResult of generate_dynamic_nonces: the offline engine's
\* Round2 pushes one entry per k in 0..no_nonces-1
EddsaOfflineResult(start, K) ==
    [nonce_start_index |-> start,
     nonce_size |-> (start + K) % U16Mod,
     completed_offline |-> K]

\* c_generate_nonce / jniGenerateNonce: a batch for the caller's (start, size);
\* EddsaOfflineGen::new refuses no_nonces < 1 and no batch is returned
\* the sum nonce_start_index + max_nonce_per_refresh is taken in u16 after the
\* offline run: past the 16-bit range it aborts the call in a build with
\* overflow checks and wraps in one without
generate_dynamic_nonces(start, K, overflow_checks) ==
    /\ Len(batches) < 2
    /\ IF K >= 1 /\ start + K >= U16Mod /\ overflow_checks
       THEN /\ op' = "generate" /\ result' = "Panic"
            /\ UNCHANGED <<batches, t, n, signing_parts, signature,
                           nonce_start_index, completed_offline, histVars>>
       ELSE /\ batches' = IF K < 1 THEN batches
                          ELSE Append(batches, EddsaOfflineResult(start, K))
            /\ UNCHANGED signVars

\* a Sign request carries the local key with one of the generated batches
LoadBatch(b) ==
    /\ result # "Panic"
    /\ nonce_start_index' = batches[b].nonce_start_index
    /\ completed_offline' = batches[b].completed_offline
    /\ op' = "load"
    /\ signing_parts' = <<>>
    /\ signature' = None
    /\ result' = "none"
    /\ UNCHANGED <<t, n, histVars, batches>>

(* ------------------------------ dispatcher ----------------------------- *)
KeySchemes == {"ECDSA", "EDDSA"}

EntryPoints == {"c_sign", "jniSign"}

SigningState(tt, nn, parts, sig) ==
    [t |-> tt, n |-> nn, signing_parts |-> parts, signature |-> sig]

\* the JSON type the variant's content is written as and parsed from
json_type(scheme) == IF scheme = "ECDSA" THEN "PartialSignature" ELSE "LocalSig"

\* serde_json::to_string of a PartialSignatureType, an untagged enum: the JSON
\* of the content, without the name of the variant
part_json(part) ==
    [type |-> json_type(part.scheme), msg |-> part.msg, slot |-> part.slot]

signing_state_obj_to_base64(scheme, state) ==
    [present |-> TRUE,
     t |-> state.t,
     n |-> state.n,
     key_scheme |-> scheme,
     signature |-> state.signature,
     signing_parts_base64 |->
        [i \in DOMAIN state.signing_parts |->
            [party_id |-> state.signing_parts[i].party_id,
             part_base64 |-> part_json(state.signing_parts[i])]]]

\* serde_json::from_slice(..).unwrap() of every part, as the type the tag of the
\* encoded state names, succeeds
decodes(encoded) ==
    \A i \in DOMAIN encoded.signing_parts_base64 :
        encoded.signing_parts_base64[i].part_base64.type = json_type(encoded.key_scheme)

\* the decoded state; every part gets the variant the tag names
signing_state_base64_to_obj(encoded) ==
    SigningState(encoded.t, encoded.n,
                 [i \in DOMAIN encoded.signing_parts_base64 |->
                     LET x == encoded.signing_parts_base64[i]
                     IN Partial(x.party_id, encoded.key_scheme,
                                x.part_base64.msg, x.part_base64.slot)],
                 encoded.signature)

Returned(state, r) == [state |-> state, result |-> r]

\* gg20::signing::sign on the decoded state: the states and results it can
\* leave behind
gg20_results(state, p, m, signers) ==
    LET parts == state.signing_parts
        od == OfflineData[p, state.t]
        k == find_offline(od, signers)
        all == Append(parts, Partial(p, "ECDSA", m, SetOf(od[k].parties)))
    IN IF already_signed(parts, state.t) THEN {Returned(state, "AlreadySigned")}
       ELSE IF k = 0 THEN {Returned(state, "Panic")}
       ELSE IF ~last_part(parts, state.t)
       THEN {Returned([state EXCEPT !.signing_parts = all], "Ok")}
       ELSE IF \E i \in DOMAIN parts : parts[i].scheme # "ECDSA"
       THEN {Returned(state, "Panic")}
       ELSE {IF outcome = "OnlineStageFailed" THEN Returned(state, outcome)
             ELSE LET sig == Some("ECDSA", m, outcome = "good")
                  IN Returned([state EXCEPT !.signing_parts = all, !.signature = sig],
                              verify_result(sig, m)) :
             outcome \in complete_outcomes(all)}

\* t_ed25519::signing::sign on the decoded state, with the local key's batch
eddsa_results(state, p, m, nonce) ==
    LET parts == state.signing_parts
        nonce_index == (nonce - nonce_start_index) % UsizeMod
        all == Append(parts, Partial(p, "EDDSA", m, nonce_index))
        entry == combine_entry(nonce, nonce_index)
        appended == [state EXCEPT !.signing_parts = all]
    IN IF already_signed(parts, state.t) THEN {Returned(state, "AlreadySigned")}
       ELSE UNION {
          LET check == range_check(nonce, nonce_start_index, completed_offline,
                                   overflow_checks)
          IN IF check # "InRange" THEN {Returned(state, check)}
             ELSE IF ~last_part(parts, state.t) THEN {Returned(appended, "Ok")}
             ELSE IF \E i \in DOMAIN all : all[i].scheme # "EDDSA"
             THEN {Returned(appended, "Panic")}
             ELSE IF entry >= completed_offline THEN {Returned(appended, "Panic")}
             ELSE {IF outcome \in {"VerifyLocalSigFailed", "Panic"}
                   THEN Returned(appended, outcome)
                   ELSE LET sig == Some("EDDSA", m, outcome = "good")
                        IN Returned([appended EXCEPT !.signature = sig],
                                    verify_result(sig, m)) :
                   outcome \in eddsa_outcomes(all, entry)} :
          overflow_checks \in BOOLEAN}

\* the nonce argument the entry point hands to t_ed25519::signing::sign
nonce_argument(entry, nonce) == IF entry = "c_sign" THEN 0 ELSE nonce

\* the scheme the entry point tags the returned state with
result_scheme(entry, key_scheme) == IF entry = "c_sign" THEN key_scheme ELSE "ECDSA"

\* signers lists of the ECDSA requests: the party sets of the offline stages
OfflineSigners(p, tt) == {OfflineData[p, tt][k].parties : k \in DOMAIN OfflineData[p, tt]}

SignCall(entry, key_scheme, nonce, r) ==
    [entry |-> entry, key_scheme |-> key_scheme, nonce |-> nonce, result |-> r]

\* c_sign / jniSign: decode the state of the request, sign with the scheme of
\* the request, and on success return the encoded state; on an error the
\* caller is left with the state it sent
Sign(entry, key_scheme, p, m, signers, nonce) ==
    /\ result # "Panic"
    /\ op' = IF key_scheme = "ECDSA" THEN "ecdsa" ELSE "eddsa"
    /\ UNCHANGED <<t, n, nonce_start_index, completed_offline, histVars>>
    /\ IF ~decodes(state_base64)
       THEN /\ result' = "Panic"  \* Result::unwrap on Err
            /\ sign_call' = SignCall(entry, key_scheme, nonce, "Panic")
            /\ UNCHANGED <<signing_parts, signature, state_base64>>
       ELSE LET state == signing_state_base64_to_obj(state_base64)
                results == IF key_scheme = "ECDSA"
                           THEN gg20_results(state, p, m, signers)
                           ELSE eddsa_results(state, p, m, nonce_argument(entry, nonce))
            IN \E r \in results :
                 /\ signing_parts' = r.state.signing_parts
                 /\ signature' = r.state.signature
                 /\ result' = r.result
                 /\ sign_call' = SignCall(entry, key_scheme, nonce, r.result)
                 /\ state_base64' =
                       IF r.result = "Ok"
                       THEN signing_state_obj_to_base64(
                                result_scheme(entry, key_scheme), r.state)
                       ELSE state_base64

\* the caller's state of a signing request nobody has signed yet
EmptyState(scheme) ==
    signing_state_obj_to_base64(scheme, SigningState(t, n, <<>>, None))

\* the caller starts the next signing request
NextRequest(scheme) ==
    /\ result # "Panic"
    /\ state_base64.signing_parts_base64 # <<>>
    /\ state_base64' = EmptyState(scheme)
    /\ sign_call' = [entry |-> "none"]
    /\ op' = "new"
    /\ signing_parts' = <<>>
    /\ signature' = None
    /\ result' = "none"
    /\ UNCHANGED <<t, n, nonce_start_index, completed_offline, histVars>>

(* ----------------------------- orchestrator ---------------------------- *)
Digits == <<"0", "1", "2", "3", "4", "5", "6", "7", "8", "9">>

\* u16::to_string: the decimal digits, most significant first
RECURSIVE to_string(_)
to_string(x) ==
    IF x < 10 THEN <<Digits[x + 1]>>
    ELSE to_string(x \div 10) \o <<Digits[(x % 10) + 1]>>

\* mutant: the separator is left out
RECURSIVE join_no_sep(_, _)
join_no_sep(strs, sep) ==
    IF strs = <<>> THEN <<>> ELSE Head(strs) \o join_no_sep(Tail(strs), sep)

\* [String]::join(sep)
RECURSIVE join(_, _)
join(strs, sep) ==
    IF strs = <<>> THEN <<>>
    ELSE IF Len(strs) = 1 THEN Head(strs)
    ELSE Head(strs) \o <<sep>> \o join(Tail(strs), sep)

\* the room of an offline run: format!("{}-parties-{}", rust_room, ..) in
\* keygen_and_offline, then format!("{}-offline", room) in generate_offline_signing
offline_room(parties) ==
    <<"rust_room", "-parties-">>
        \o join([k \in DOMAIN parties |-> to_string(Sort(parties)[k])], "_")
        \o <<"-offline">>

ecdsa_keygen_room == <<"rust_room", "-ecdsa">>

eddsa_keygen_room == <<"rust_room", "-eddsa">>

\* mutant: the start index and the size are written without a separator
nonce_room_no_sep(nonce_start_index_, max_nonce_per_refresh) ==
    <<"rust_room", "-eddsa-offline-">> \o to_string(nonce_start_index_)
        \o to_string(max_nonce_per_refresh)

nonce_room(nonce_start_index_, max_nonce_per_refresh) ==
    <<"rust_room", "-eddsa-offline-">> \o to_string(nonce_start_index_)
        \o <<"_">> \o to_string(max_nonce_per_refresh)

\* the characters of the literal pieces of the format! strings
Spelling ==
    [piece \in {"-parties-", "-offline", "-ecdsa", "-eddsa", "-eddsa-offline-"} |->
        CASE piece = "-parties-" -> <<"-", "p", "a", "r", "t", "i", "e", "s", "-">>
          [] piece = "-offline" -> <<"-", "o", "f", "f", "l", "i", "n", "e">>
          [] piece = "-ecdsa" -> <<"-", "e", "c", "d", "s", "a">>
          [] piece = "-eddsa" -> <<"-", "e", "d", "d", "s", "a">>
          [] OTHER -> <<"-", "e", "d", "d", "s", "a", "-", "o", "f", "f", "l", "i", "n", "e", "-">>]

\* the room name as the string the transport sees, character by character;
\* rust_room, the same in every name of one wallet, stays one piece
RECURSIVE spelled(_)
spelled(name) ==
    IF name = <<>> THEN <<>>
    ELSE (IF Head(name) \in DOMAIN Spelling THEN Spelling[Head(name)] ELSE <<Head(name)>>)
             \o spelled(Tail(name))

\* a join_computation call: the room and the parties list sent to issue_index
Joined(kind, room, parties) == [kind |-> kind, room |-> room, parties |-> parties]

Rooms(p) == {joined[p][k].room : k \in DOMAIN joined[p]}

\* a protocol run in `room` ends once every member has joined the room
AllJoined(room, members) == \A q \in members : room \in Rooms(q)

OrchParties == 1..rust_n

InitOrch ==
    /\ rust_n \in 2..MaxN
    /\ rust_t \in 1..(MaxN - 1)
    /\ rust_t < rust_n
    /\ pc = [p \in OrchParties |-> "start"]
    /\ progress = [p \in OrchParties |-> 0]
    /\ ecdsa_offline_data = [p \in OrchParties |-> <<>>]
    /\ joined = [p \in OrchParties |-> <<>>]

Goto(p, from, to) == pc[p] = from /\ pc' = [pc EXCEPT ![p] = to]

Join(p, kind, room, parties) ==
    joined' = [joined EXCEPT ![p] = Append(@, Joined(kind, room, parties))]

\* gg20::keygen::start_keygen: join <room>-ecdsa
EcdsaKeygenStart(p) ==
    /\ Goto(p, "start", "ecdsa_keygen")
    /\ Join(p, "ecdsa_keygen", ecdsa_keygen_room, all_parties(rust_n))
    /\ UNCHANGED <<rust_t, rust_n, progress, ecdsa_offline_data, notOrch>>

EcdsaKeygenDone(p) ==
    /\ Goto(p, "ecdsa_keygen", "offline_loop")
    /\ AllJoined(ecdsa_keygen_room, OrchParties)
    /\ UNCHANGED <<rust_t, rust_n, progress, ecdsa_offline_data, joined, notOrch>>

\* all_subsets_parties of every party, each subset as parties.sort() leaves it
SortedSubsets ==
    [p \in 1..MaxN, tt \in 1..MaxN, nn \in 1..MaxN |->
        LET subsets == all_subsets_parties(p, tt, nn)
        IN [k \in DOMAIN subsets |-> Sort(subsets[k])]]

\* mutant: the parties with an even index walk the subsets from the last to
\* the first
NextParties_by_parity(p) ==
    LET subsets == SortedSubsets[p, rust_t, rust_n]
    IN subsets[IF p % 2 = 0 THEN Len(subsets) - progress[p] ELSE progress[p] + 1]

\* mutant: the for loop walks the subsets from the last to the first
NextParties_backwards(p) ==
    LET subsets == all_subsets_parties(p, rust_t, rust_n)
    IN Sort(subsets[Len(subsets) - progress[p]])

\* the subset the for loop of party p handles next, sorted
NextParties(p) == SortedSubsets[p, rust_t, rust_n][progress[p] + 1]

\* loop body, first half: generate_offline_signing joins the subset's room
OfflineStart(p) ==
    /\ progress[p] < Len(all_subsets_parties(p, rust_t, rust_n))
    /\ Goto(p, "offline_loop", "offline")
    /\ Join(p, "offline", offline_room(NextParties(p)), NextParties(p))
    /\ UNCHANGED <<rust_t, rust_n, progress, ecdsa_offline_data, notOrch>>

\* loop body, second half: the run ends and its result is pushed
OfflineDone(p) ==
    /\ Goto(p, "offline", "offline_loop")
    /\ AllJoined(offline_room(NextParties(p)), SetOf(NextParties(p)))
    /\ ecdsa_offline_data' =
          [ecdsa_offline_data EXCEPT ![p] = Append(@, [parties |-> NextParties(p)])]
    /\ progress' = [progress EXCEPT ![p] = @ + 1]
    /\ UNCHANGED <<rust_t, rust_n, joined, notOrch>>

\* after the loop: t_ed25519::keygen::start_keygen joins <room>-eddsa
EddsaKeygenStart(p) ==
    /\ progress[p] = Len(all_subsets_parties(p, rust_t, rust_n))
    /\ Goto(p, "offline_loop", "eddsa_keygen")
    /\ Join(p, "eddsa_keygen", eddsa_keygen_room, all_parties(rust_n))
    /\ UNCHANGED <<rust_t, rust_n, progress, ecdsa_offline_data, notOrch>>

\* eddsa keygen ends; generate_dynamic_nonces(0, max_nonce_per_refresh) joins
NoncesStart(p) ==
    /\ Goto(p, "eddsa_keygen", "nonces")
    /\ AllJoined(eddsa_keygen_room, OrchParties)
    /\ Join(p, "nonces", nonce_room(0, BatchLen), all_parties(rust_n))
    /\ UNCHANGED <<rust_t, rust_n, progress, ecdsa_offline_data, notOrch>>

\* the nonce batch ends and the KeygenResult bundle is returned
NoncesDone(p) ==
    /\ Goto(p, "nonces", "done")
    /\ AllJoined(nonce_room(0, BatchLen), OrchParties)
    /\ UNCHANGED <<rust_t, rust_n, progress, ecdsa_offline_data, joined, notOrch>>

\* a sub-protocol run returns Err and `?` ends keygen_and_offline
Fail(p) ==
    /\ pc[p] \in {"ecdsa_keygen", "offline", "eddsa_keygen", "nonces"}
    /\ pc' = [pc EXCEPT ![p] = "failed"]
    /\ UNCHANGED <<rust_t, rust_n, progress, ecdsa_offline_data, joined, notOrch>>

NextOrch ==
    \/ \E p \in OrchParties : EcdsaKeygenStart(p)
    \/ \E p \in OrchParties : EcdsaKeygenDone(p)
    \/ \E p \in OrchParties : OfflineStart(p)
    \/ \E p \in OrchParties : OfflineDone(p)
    \/ \E p \in OrchParties : EddsaKeygenStart(p)
    \/ \E p \in OrchParties : NoncesStart(p)
    \/ \E p \in OrchParties : NoncesDone(p)
    \/ \E p \in OrchParties : Fail(p)

\* keygen_and_offline of party p runs on: no sub-protocol run returns Err
OrchStep(p) ==
    /\ p \in OrchParties
    /\ \/ EcdsaKeygenStart(p) \/ EcdsaKeygenDone(p)
       \/ OfflineStart(p) \/ OfflineDone(p)
       \/ EddsaKeygenStart(p)
       \/ NoncesStart(p) \/ NoncesDone(p)

NextReliable == \E p \in 1..MaxN : OrchStep(p)

(* ------------------- EdDSA keygen and offline engines ------------------ *)
\* Msg { sender, receiver, body }: receiver 0 stands for None (a broadcast),
\* round for the M::Round1 / M::Round2 variant of the body
Msg(sender, receiver, rnd, body) ==
    [sender |-> sender, receiver |-> receiver, round |-> rnd, body |-> body]

\* the public key (keygen) or nonce point R (offline) party j broadcasts
PubKey(j) == 10^(j - 1)

\* a round message body: the point it carries and whether its commitment
\* opens (round 1) or its VSS share verifies (round 2)
Body(key, valid) == [key |-> key, valid |-> valid]

NoStore == [present |-> FALSE, msgs |-> {}]

\* BroadcastMsgsStore::new / P2PMsgsStore::new
expects_messages == [present |-> TRUE, msgs |-> {}]

Senders(store) == {m.sender : m \in store.msgs}

\* Store::wants_more: a message of one of the n-1 other parties is missing;
\* Option::map(..).unwrap_or(false) on a store that was taken
wants_more(store, nn) == store.present /\ Cardinality(Senders(store)) < nn - 1

\* Store::push_msg: "Ok" or the reason the message is refused
push_check(store, rnd, i, nn, msg) ==
    IF msg.sender < 1 \/ msg.sender > nn \/ msg.sender = i THEN "InvalidSender"
    ELSE IF rnd = 1 /\ msg.receiver # 0 THEN "UnexpectedReceiver"
    ELSE IF rnd = 2 /\ msg.receiver # i THEN "UnexpectedReceiver"
    ELSE IF msg.sender \in Senders(store) THEN "DuplicateSender"
    ELSE "Ok"

push_msg(store, msg) ==
    [store EXCEPT !.msgs = {m \in @ : m.sender # msg.sender}
                            \cup {[sender |-> msg.sender, body |-> msg.body]}]

\* mutant: the party's own body first, the others after it by index
into_vec_own_first(store, i, nn, own) ==
    [j \in 1..nn |->
        IF j = 1 THEN own
        ELSE (CHOOSE m \in store.msgs : m.sender = (IF j <= i THEN j - 1 ELSE j)).body]

\* Store::finish then into_vec_including_me: the bodies by party index, the
\* party's own body at its index
into_vec_including_me(store, i, nn, own) ==
    [j \in 1..nn |->
        IF j = i THEN own
        ELSE (CHOOSE m \in store.msgs : m.sender = j).body]

RECURSIVE fold_sum(_)
fold_sum(s) == IF s = <<>> THEN 0 ELSE Head(s) + fold_sum(Tail(s))

\* R::Round0, R::Round1, R::Round2, R::Final, R::Gone with what they hold
Round(tag, round_msg, pubkeys_list, agg_pubkey) ==
    [tag |-> tag, round_msg |-> round_msg,
     pubkeys_list |-> pubkeys_list, agg_pubkey |-> agg_pubkey]

Gone == Round("Gone", Body(0, TRUE), <<>>, 0)

\* mutant: the threshold may equal n
new_check_loose(kind, i, tt, nn, no_nonces) ==
    IF nn < 2 THEN "TooFewParties"
    ELSE IF kind = "offline" /\ no_nonces < 1 THEN "TooFewNonces"
    ELSE IF tt = 0 \/ tt > nn THEN "InvalidThreshold"
    ELSE IF i = 0 \/ i > nn THEN "InvalidPartyIndex"
    ELSE "Ok"

\* EddsaKeygen::new / EddsaOfflineGen::new: the error, or "Ok"
new_check(kind, i, tt, nn, no_nonces) ==
    IF nn < 2 THEN "TooFewParties"
    ELSE IF kind = "offline" /\ no_nonces < 1 THEN "TooFewNonces"
    ELSE IF tt = 0 \/ tt >= nn THEN "InvalidThreshold"
    ELSE IF i = 0 \/ i > nn THEN "InvalidPartyIndex"
    ELSE "Ok"

\* the engine the constructor builds: Round0, both stores, an empty queue;
\* proceed_round(false) leaves it there because Round0 is expensive
new_engine(kind, i, tt, nn, no_nonces) ==
    [round |-> Round("Round0", Body(0, TRUE), <<>>, 0),
     msgs1 |-> expects_messages,
     msgs2 |-> expects_messages,
     msgs_queue |-> <<>>,
     party_i |-> i, party_n |-> nn,
     t |-> tt, no_nonces |-> no_nonces, kind |-> kind,
     panicked |-> FALSE]

\* a slot in which no engine was constructed
NoEngine ==
    [new_engine("none", 0, 0, 0, 0) EXCEPT
        !.round = Round("None", Body(0, TRUE), <<>>, 0),
        !.msgs1 = NoStore, !.msgs2 = NoStore]

Outcome(e, r) == [engine |-> e, result |-> r]

Peers(e) == (1..e.party_n) \ {e.party_i}

\* the sequences that list every element of S once
RECURSIVE Orders(_)
Orders(S) ==
    IF S = {} THEN {<<>>}
    ELSE UNION {{<<x>> \o rest : rest \in Orders(S \ {x})} : x \in S}

\* the orders in which Round1::proceed pushes the P2P messages: the keygen
\* loops over the shares by index, the offline engine over the keys of a HashMap
p2p_orders(e) ==
    IF e.kind = "keygen" THEN {Ascending(Peers(e))} ELSE Orders(Peers(e))

\* Round0::proceed: the party's commitment is broadcast
Round0_proceed(e) ==
    LET own == Body(PubKey(e.party_i), TRUE)
    IN [e EXCEPT !.round = Round("Round1", own, <<>>, 0),
                 !.msgs_queue = Append(@, Msg(e.party_i, 0, 1, own))]

\* mutant: the party's own broadcast is put first
round1_input_own_first(e) ==
    into_vec_own_first(e.msgs1, e.party_i, e.party_n, e.round.round_msg)

round1_input(e) == into_vec_including_me(e.msgs1, e.party_i, e.party_n, e.round.round_msg)

\* mutant: the P2P messages are put in front of what the queue holds
Round1_proceed_queue_front(e) ==
    LET all == round1_input(e)
        pubkeys_list == [j \in 1..e.party_n |-> all[j].key]
        own == Body(0, TRUE)
    IN {[e EXCEPT !.round = Round("Round2", own, pubkeys_list, fold_sum(pubkeys_list)),
                  !.msgs1 = NoStore,
                  !.msgs_queue = [k \in DOMAIN order |->
                                     Msg(e.party_i, order[k], 2, own)] \o @]
        : order \in p2p_orders(e)}

\* Round1::proceed on the full broadcast store: the public keys in index order,
\* their sum, and one P2P message per peer
Round1_proceed(e) ==
    LET all == round1_input(e)
        pubkeys_list == [j \in 1..e.party_n |-> all[j].key]
        own == Body(0, TRUE)
    IN {[e EXCEPT !.round = Round("Round2", own, pubkeys_list, fold_sum(pubkeys_list)),
                  !.msgs1 = NoStore,
                  !.msgs_queue = @ \o [k \in DOMAIN order |->
                                          Msg(e.party_i, order[k], 2, own)]]
        : order \in p2p_orders(e)}

round2_input(e) == into_vec_including_me(e.msgs2, e.party_i, e.party_n, e.round.round_msg)

\* mutant: the P2P store is read and left in place
Round2_proceed_keeps_store(e) ==
    [e EXCEPT !.round = Round("Final", e.round.round_msg,
                              e.round.pubkeys_list, e.round.agg_pubkey)]

\* Round2::proceed on the full P2P store: the local key, or the nonce batch
Round2_proceed(e) ==
    [e EXCEPT !.round = Round("Final", e.round.round_msg,
                              e.round.pubkeys_list, e.round.agg_pubkey),
              !.msgs2 = NoStore]

AllValid(all) == \A j \in DOMAIN all : all[j].valid

\* mutant: one transition per call, try_again is dropped
proceed_round_once(e, may_block) ==
    LET tag == e.round.tag
    IN IF tag = "Round0" /\ may_block
       THEN {Outcome(Round0_proceed(e), "Ok")}
       ELSE IF tag = "Round1" /\ e.msgs1.present /\ ~wants_more(e.msgs1, e.party_n)
       THEN {Outcome(x, "Ok") : x \in Round1_proceed(e)}
       ELSE IF tag = "Round2" /\ e.msgs2.present /\ ~wants_more(e.msgs2, e.party_n) /\ may_block
       THEN {Outcome(Round2_proceed(e), "Ok")}
       ELSE {Outcome(e, "Ok")}

\* proceed_round(may_block): the engines it can end in and what it returns.
\* self.round is Gone while a transition runs; phase1_verify_com_phase2_distribute
\* and phase2_verify_vss_construct_keypair are unwrapped, so a commitment that
\* does not open or a share that does not verify panics: the call never
\* returns and the engine, which the unwinding caller owned, is lost
RECURSIVE proceed_round(_, _)
proceed_round(e, may_block) ==
    LET tag == e.round.tag
        store1_wants_more == wants_more(e.msgs1, e.party_n)
        store2_wants_more == wants_more(e.msgs2, e.party_n)
    IN IF tag = "Round0" /\ may_block
       THEN proceed_round(Round0_proceed(e), may_block)
       ELSE IF tag = "Round1" /\ ~store1_wants_more
       THEN IF ~e.msgs1.present
            THEN {Outcome([e EXCEPT !.round = Gone], "InternalError")}
            ELSE IF ~AllValid(round1_input(e))
            THEN {Outcome([e EXCEPT !.round = Gone, !.msgs1 = NoStore,
                                    !.panicked = TRUE], "Panic")}
            ELSE UNION {proceed_round(x, may_block) : x \in Round1_proceed(e)}
       ELSE IF tag = "Round2" /\ ~store2_wants_more /\ may_block
       THEN IF ~e.msgs2.present
            THEN {Outcome([e EXCEPT !.round = Gone], "InternalError")}
            ELSE IF ~AllValid(round2_input(e))
            THEN {Outcome([e EXCEPT !.round = Gone, !.msgs2 = NoStore,
                                    !.panicked = TRUE], "Panic")}
            ELSE proceed_round(Round2_proceed(e), may_block)
       ELSE {Outcome(e, "Ok")}

current_round(e) ==
    CASE e.round.tag = "Round0" -> 0
      [] e.round.tag = "Round1" -> 1
      [] e.round.tag = "Round2" -> 2
      [] OTHER -> 3

StoreOf(e, rnd) == IF rnd = 1 THEN e.msgs1 ELSE e.msgs2

\* mutant: what push_msg returns is dropped
handle_incoming_unchecked(e, msg) ==
    IF ~StoreOf(e, msg.round).present THEN {Outcome(e, "ReceivedOutOfOrderMessage")}
    ELSE IF msg.round = 1
    THEN proceed_round([e EXCEPT !.msgs1 = push_msg(@, msg)], FALSE)
    ELSE proceed_round([e EXCEPT !.msgs2 = push_msg(@, msg)], FALSE)

\* mutant: a message of a round the engine has not reached is refused
handle_incoming_strict(e, msg) ==
    LET check == push_check(StoreOf(e, msg.round), msg.round, e.party_i, e.party_n, msg)
    IN IF ~StoreOf(e, msg.round).present \/ current_round(e) < msg.round
       THEN {Outcome(e, "ReceivedOutOfOrderMessage")}
       ELSE IF check # "Ok" THEN {Outcome(e, check)}
       ELSE IF msg.round = 1
       THEN proceed_round([e EXCEPT !.msgs1 = push_msg(@, msg)], FALSE)
       ELSE proceed_round([e EXCEPT !.msgs2 = push_msg(@, msg)], FALSE)

\* mutant: the transition after push_msg may block
handle_incoming_blocking(e, msg) ==
    LET store == StoreOf(e, msg.round)
        check == push_check(store, msg.round, e.party_i, e.party_n, msg)
    IN IF ~store.present THEN {Outcome(e, "ReceivedOutOfOrderMessage")}
       ELSE IF check # "Ok" THEN {Outcome(e, check)}
       ELSE IF msg.round = 1
       THEN proceed_round([e EXCEPT !.msgs1 = push_msg(@, msg)], TRUE)
       ELSE proceed_round([e EXCEPT !.msgs2 = push_msg(@, msg)], TRUE)

\* handle_incoming: the store of the message's round, push_msg, proceed_round(false)
handle_incoming(e, msg) ==
    LET store == StoreOf(e, msg.round)
        check == push_check(store, msg.round, e.party_i, e.party_n, msg)
    IN IF ~store.present THEN {Outcome(e, "ReceivedOutOfOrderMessage")}
       ELSE IF check # "Ok" THEN {Outcome(e, check)}
       ELSE IF msg.round = 1
       THEN proceed_round([e EXCEPT !.msgs1 = push_msg(@, msg)], FALSE)
       ELSE proceed_round([e EXCEPT !.msgs2 = push_msg(@, msg)], FALSE)

\* mutant: every round but the last states reports that it can proceed
wants_to_proceed_eager(e) == e.round.tag \in {"Round0", "Round1", "Round2"}

\* mutant: a transition that is expensive is never asked for
wants_to_proceed_cheap(e) ==
    e.round.tag = "Round1" /\ ~wants_more(e.msgs1, e.party_n)

wants_to_proceed(e) ==
    \/ e.round.tag = "Round0"
    \/ e.round.tag = "Round1" /\ ~wants_more(e.msgs1, e.party_n)
    \/ e.round.tag = "Round2" /\ ~wants_more(e.msgs2, e.party_n)

is_finished(e) == e.round.tag = "Final"

\* mutant: the output stays available after it was picked
pick_output_again(e) ==
    IF e.round.tag = "Final" THEN Outcome(e, "Output")
    ELSE IF e.round.tag = "Gone" THEN Outcome(e, "DoublePickOutput")
    ELSE Outcome(e, "Nothing")

\* pick_output: None before Final, the output once, DoublePickOutput in Gone
pick_output(e) ==
    IF e.round.tag = "Final" THEN Outcome([e EXCEPT !.round = Gone], "Output")
    ELSE IF e.round.tag = "Gone" THEN Outcome(e, "DoublePickOutput")
    ELSE Outcome(e, "Nothing")

\* the party indices an engine may be constructed for
Slots == 1..(IF EngN > RunN THEN EngN ELSE RunN)

EngineKinds == {"keygen", "offline"}

Call(o, s, r) == [op |-> o, slot |-> s, result |-> r]

\* a proceed call, with the round it found the engine in
ProceedCall(s, r, from) == [op |-> "proceed", slot |-> s, result |-> r, from |-> from]

Constructed(s) == engines[s].round.tag # "None"

\* an engine a caller can still reach
Usable(s) == Constructed(s) /\ ~engines[s].panicked

\* messages a peer, or anyone else, may hand to handle_incoming
Messages ==
    {Msg(sender, receiver, rnd, Body(IF sender \in Slots THEN PubKey(sender) ELSE 0, valid)) :
        sender \in 0..(EngN + 1), receiver \in 0..EngN, rnd \in 1..2, valid \in BOOLEAN}

\* EddsaKeygen::new(i, t, n) / EddsaOfflineGen::new(i, t, n, no_nonces)
New(kind, i, tt, nn, no_nonces) ==
    /\ \A s \in Slots : ~Constructed(s)
    /\ LET check == new_check(kind, i, tt, nn, no_nonces)
       IN /\ engines' = IF check = "Ok"
                        THEN [engines EXCEPT ![i] = new_engine(kind, i, tt, nn, no_nonces)]
                        ELSE engines
          /\ eng_call' = Call("new", i, check)
    /\ UNCHANGED <<wire, picked>>

\* one call of handle_incoming on the engine of party s
Incoming(s, msg) ==
    /\ Usable(s)
    /\ \E o \in handle_incoming(engines[s], msg) :
          /\ engines' = [engines EXCEPT ![s] = o.engine]
          /\ eng_call' = Call("handle_incoming", s, o.result)
    /\ UNCHANGED picked

\* handle_incoming with a message from anywhere
HandleIncoming(s, msg) == Incoming(s, msg) /\ UNCHANGED wire

\* handle_incoming with a message a peer sent to party s
Deliver(s, w) ==
    /\ w \in wire /\ w.to = s
    /\ Incoming(s, w.msg)
    /\ wire' = wire \ {w}

\* StateMachine::proceed
Proceed(s) ==
    /\ Usable(s)
    /\ \E o \in proceed_round(engines[s], TRUE) :
          /\ engines' = [engines EXCEPT ![s] = o.engine]
          /\ eng_call' = ProceedCall(s, o.result, current_round(engines[s]))
    /\ UNCHANGED <<wire, picked>>

\* the driver calls proceed when wants_to_proceed says so
DriverProceed(s) == Usable(s) /\ wants_to_proceed(engines[s]) /\ Proceed(s)

\* StateMachine::pick_output
PickOutput(s) ==
    /\ Usable(s)
    /\ LET o == pick_output(engines[s])
       IN /\ engines' = [engines EXCEPT ![s] = o.engine]
          /\ eng_call' = Call("pick_output", s, o.result)
          /\ picked' = [picked EXCEPT ![s] =
                            IF o.result = "Output" THEN Min({@ + 1, MaxPicks}) ELSE @]
    /\ UNCHANGED wire

\* mutant: the party's own messages, echoed by the room, are let through
incoming_filter_echo(index, msg) == msg.receiver = 0 \/ msg.receiver = index

\* join_computation: the try_filter on the stream of the party with this index
incoming_filter(index, msg) ==
    msg.sender # index /\ (msg.receiver = 0 \/ msg.receiver = index)

\* the room hands a message to every subscriber; those whose stream keeps it
Recipients(e, m) == {r \in 1..e.party_n : incoming_filter(r, m)}

\* the driver drains message_queue() and sends the messages
SendQueued(s) ==
    /\ Usable(s)
    /\ engines[s].msgs_queue # <<>>
    /\ wire' = wire \cup
                 UNION {{[msg |-> m, to |-> r] : r \in Recipients(engines[s], m)} :
                           m \in SetOf(engines[s].msgs_queue)}
    /\ engines' = [engines EXCEPT ![s].msgs_queue = <<>>]
    /\ eng_call' = Call("message_queue", s, "Ok")
    /\ UNCHANGED picked

(* --------------------- the rounds of one party ------------------------- *)
\* the arguments of ephermeral_key_create_from_deterministic_secret for
\* position k of the batch: the party's keypair, the message, the index
nonce_derivation(party_i, k) ==
    [keypair |-> party_i, message |-> <<>>, index |-> party_i]

\* the share of nonce k (of the key, in keygen: k = 0) computed for party j
Share(k, j) == [nonce |-> k, share_for |-> j]

\* offline Round0::proceed: one broadcast carrying a K-vector
offline_Round0_output(r) ==
    <<Msg(r.party_i, 0, 1,
          [x \in 1..r.no_nonces |-> [R |-> nonce_derivation(r.party_i, x - 1)]])>>

\* mutant: the shares are grouped by nonce, one vector per nonce
offline_output_msg_by_nonce(r, j) == <<Share(j - 1, j)>>

\* offline Round1::proceed, output_msg[j]: the shares pushed for peer j while x
\* runs over 0..no_nonces-1
offline_output_msg(r, j) == [x \in 1..r.no_nonces |-> Share(x - 1, j)]

\* offline Round1::proceed: output_msg.keys().for_each pushes one message per
\* key, in the order the HashMap yields the keys
offline_Round1_output(r, order) ==
    [k \in DOMAIN order |-> Msg(r.party_i, order[k], 2, offline_output_msg(r, order[k]))]

\* keygen Round0::proceed: one broadcast with the public key
keygen_Round0_output(r) == <<Msg(r.party_i, 0, 1, [public_key |-> PubKey(r.party_i)])>>

\* keygen Round1::proceed: the loop over secret_share skips i + 1 = party_i
keygen_Round1_output(r) ==
    LET peers == Ascending((1..r.n) \ {r.party_i})
    IN [k \in DOMAIN peers |-> Msg(r.party_i, peers[k], 2, Share(0, peers[k]))]

\* the orders in which a HashMap may yield the peers
KeyOrders(r) == {o \in [1..(r.n - 1) -> (1..r.n) \ {r.party_i}] :
                    \A a, b \in DOMAIN o : a # b => o[a] # o[b]}

\* Round0 of party i, as EddsaKeygen::new / EddsaOfflineGen::new build it
NewRound0(kind, i, tt, nn, K) ==
    [stage |-> "Round0", kind |-> kind, party_i |-> i, t |-> tt, n |-> nn,
     no_nonces |-> K, output |-> <<>>, result |-> <<>>]

InitRound ==
    \E kind \in EngineKinds, nn \in 2..RoundN :
        \E i \in 1..nn, tt \in 1..(nn - 1), K \in 1..MaxK :
            party_round = NewRound0(kind, i, tt, nn, IF kind = "offline" THEN K ELSE 0)

\* Round0::proceed(output)
ProceedRound0 ==
    /\ party_round.stage = "Round0"
    /\ party_round' =
          [party_round EXCEPT
              !.stage = "Round1",
              !.output = @ \o (IF party_round.kind = "offline"
                               THEN offline_Round0_output(party_round)
                               ELSE keygen_Round0_output(party_round))]

\* Round1::proceed(input, output): the unwrap of
\* phase1_verify_com_phase2_distribute panics on a commitment that does not open
ProceedRound1(valid) ==
    /\ party_round.stage = "Round1"
    /\ IF ~valid THEN party_round' = [party_round EXCEPT !.stage = "Panic"]
       ELSE \E order \in KeyOrders(party_round) :
              party_round' =
                 [party_round EXCEPT
                     !.stage = "Round2",
                     !.output = @ \o (IF party_round.kind = "offline"
                                      THEN offline_Round1_output(party_round, order)
                                      ELSE keygen_Round1_output(party_round))]

\* Round2::proceed(input): the local key, or one EddsaOffline per nonce
ProceedRound2(valid) ==
    /\ party_round.stage = "Round2"
    /\ party_round' =
          IF ~valid THEN [party_round EXCEPT !.stage = "Panic"]
          ELSE [party_round EXCEPT
                   !.stage = "Final",
                   !.result = IF party_round.kind = "offline"
                              THEN [x \in 1..party_round.no_nonces |-> [nonce |-> x - 1]]
                              ELSE <<[local_key |-> party_round.party_i]>>]

(* -------------------------- encryption envelope ------------------------ *)
\* a character of an envelope; the base64 text of an AES-GCM output is kept as
\* one unit that remembers what was sealed (key, iv, plaintext)
Char(c) == [ch |-> c, box |-> <<>>]

Str(s) == [i \in DOMAIN s |-> Char(s[i])]

Ok(v) == [ok |-> TRUE, value |-> v]

Err(e) == [ok |-> FALSE, value |-> e]

\* SHA-256 of the password
get_key_from_password(password) == <<"sha256", password>>

\* 12 bytes: four zero bytes, then the nonce big-endian
derive_iv_from_nonce(nonce) == <<0, nonce>>

\* Aes256Gcm::encrypt followed by the base64 encoding of its output
sealed_base64(key, iv, plaintext) == <<[ch |-> "base64", box |-> <<key, iv, plaintext>>]>>

\* format!("{}:{}", nonce, base64)
encrypt_with_nonce(plaintext, password, nonce) ==
    Str(to_string(nonce)) \o <<Char(":")>>
        \o sealed_base64(get_key_from_password(password),
                         derive_iv_from_nonce(nonce), plaintext)

\* the position of the first sep in s, or Len(s) + 1
RECURSIVE find_sep(_, _, _)
find_sep(s, sep, i) ==
    IF i > Len(s) THEN i ELSE IF s[i] = sep THEN i ELSE find_sep(s, sep, i + 1)

\* str::split(sep), as the sequence of its items
RECURSIVE split(_, _)
split(s, sep) ==
    LET k == find_sep(s, sep, 1)
    IN IF k > Len(s) THEN <<s>>
       ELSE <<SubSeq(s, 1, k - 1)>> \o split(SubSeq(s, k + 1, Len(s)), sep)

DigitValue(c) == CHOOSE d \in 0..9 : Digits[d + 1] = c.ch

IsDigit(c) == c.box = <<>> /\ \E d \in 0..9 : Digits[d + 1] = c.ch

RECURSIVE digits_value(_, _)
digits_value(s, acc) ==
    IF s = <<>> THEN acc ELSE digits_value(Tail(s), 10 * acc + DigitValue(Head(s)))

\* str::parse::<u64>: an optional '+', then one or more decimal digits
parse_u64(s) ==
    LET body == IF s # <<>> /\ Head(s) = Char("+") THEN Tail(s) ELSE s
    IN IF body = <<>> \/ \E i \in DOMAIN body : ~IsDigit(body[i])
       THEN Err("ParseIntError")
       ELSE Ok(digits_value(body, 0))

\* characters of the standard base64 alphabet among the model's characters
Base64Chars == {"A", "7", "+"}

\* base64 decode, then Aes256Gcm::decrypt, then String::from_utf8
decrypt_with_nonce(ciphertext, password, nonce) ==
    IF \E i \in DOMAIN ciphertext :
          ciphertext[i].box = <<>> /\ ciphertext[i].ch \notin Base64Chars
    THEN Err("DecodeError")
    ELSE IF /\ Len(ciphertext) = 1
            /\ ciphertext[1].box # <<>>
            /\ ciphertext[1].box[1] = get_key_from_password(password)
            /\ ciphertext[1].box[2] = derive_iv_from_nonce(nonce)
    THEN Ok(ciphertext[1].box[3])
    ELSE Err("DecryptionFailure")

\* mutant: the ciphertext is taken from the first item of the split
decrypt_first_item(ciphertext, password) ==
    LET items == split(ciphertext, Char(":"))
        nonce == parse_u64(items[1])
    IN IF ~nonce.ok THEN nonce
       ELSE IF Len(items) < 2 THEN Err("Panic")
       ELSE decrypt_with_nonce(items[1], password, nonce.value)

\* decrypt: split(":"), the first item parsed as u64 (an error is returned),
\* the second item expected (Option::expect aborts when there is none)
decrypt(ciphertext, password) ==
    LET items == split(ciphertext, Char(":"))
        nonce == parse_u64(items[1])
    IN IF ~nonce.ok THEN nonce
       ELSE IF Len(items) < 2 THEN Err("Panic")
       ELSE decrypt_with_nonce(items[2], password, nonce.value)

\* serde_json::to_string of a key or of offline data, which the model tells
\* apart by a number
to_json(v) == Str(<<"{", "k", ":">> \o to_string(v) \o <<"}">>)

\* serde_json::from_str
from_json(s) ==
    IF /\ Len(s) >= 5
       /\ SubSeq(s, 1, 3) = Str(<<"{", "k", ":">>)
       /\ s[Len(s)] = Char("}")
       /\ parse_u64(SubSeq(s, 4, Len(s) - 1)).ok
       /\ s[4] # Char("+")
    THEN Ok(parse_u64(SubSeq(s, 4, Len(s) - 1)).value)
    ELSE Err("JsonError")

\* decrypt_ecdsa / decrypt_eddsa: both envelopes decrypted and parsed, the
\* first error returned
decrypt_bundle(b, password) ==
    LET key_text == decrypt(b.encrypted_key, password)
        key == IF key_text.ok THEN from_json(key_text.value) ELSE key_text
        nonce_text == decrypt(b.encrypted_nonce, password)
        data == IF nonce_text.ok THEN from_json(nonce_text.value) ELSE nonce_text
    IN IF ~key.ok THEN key
       ELSE IF ~data.ok THEN data
       ELSE Ok([local_key |-> key.value, offline_data |-> data.value])

\* characters of plaintexts, and of envelope strings supplied from outside
PlainChars == {"a", ":", "7"}

EnvelopeChars == {"1", ":", "A", "!"}

StringsOver(chars, len) == UNION {[1..k -> {Char(c) : c \in chars}] : k \in 0..len}

Plaintexts == StringsOver(PlainChars, MaxPlain)

Passwords == 1..NumPasswords

\* explicit nonces given to encrypt_with_nonce: one digit, more digits
ExplicitNonces == {7, 10, 999}

KeyIds == 1..2

NoOrigin == [present |-> FALSE]

NoBundle == [present |-> FALSE]

InitEnc ==
    /\ clock = 0
    /\ envelope = <<>>
    /\ origin = NoOrigin
    /\ bundle = NoBundle
    /\ bundle_origin = NoOrigin
    /\ enc_call = [op |-> "none", password |-> 0, out |-> Ok("none")]

Panicked(out) == ~out.ok /\ out.value = "Panic"

Aborted == Panicked(enc_call.out)

\* time passes
Tick ==
    /\ ~Aborted
    /\ clock < MaxClock
    /\ clock' = clock + 1
    /\ UNCHANGED <<envelope, origin, bundle, bundle_origin, enc_call>>

Produced(plaintext, password, nonce) ==
    /\ envelope' = encrypt_with_nonce(plaintext, password, nonce)
    /\ origin' = [present |-> TRUE, plaintext |-> plaintext, password |-> password,
                  nonce |-> nonce]
    /\ bundle' = NoBundle
    /\ bundle_origin' = NoOrigin
    /\ enc_call' = [op |-> "encrypt", password |-> password, out |-> Ok("envelope")]
    /\ UNCHANGED clock

\* encrypt: the nonce is the clock's milliseconds
Encrypt(plaintext, password) ==
    /\ ~Aborted
    /\ Produced(plaintext, password, clock)

EncryptWithNonce(plaintext, password, nonce) ==
    /\ ~Aborted
    /\ Produced(plaintext, password, nonce)

\* a caller hands over an envelope string that encrypt did not produce
Supply(s) ==
    /\ ~Aborted
    /\ envelope' = s
    /\ origin' = NoOrigin
    /\ bundle' = NoBundle
    /\ bundle_origin' = NoOrigin
    /\ enc_call' = [op |-> "supply", password |-> 0, out |-> Ok("none")]
    /\ UNCHANGED clock

Decrypt(password) ==
    /\ ~Aborted
    /\ ~bundle.present
    /\ enc_call' = [op |-> "decrypt", password |-> password,
                    out |-> decrypt(envelope, password)]
    /\ UNCHANGED <<clock, envelope, origin, bundle, bundle_origin>>

\* encrypt_eddsa_keygen_result / encrypt_ecdsa_keygen_result: two encrypt calls
\* one after the other, each reading the clock
EncryptBundle(local_key, offline_data, password) ==
    /\ ~Aborted
    /\ \E later \in clock..Min({clock + 1, MaxClock}) :
          /\ clock' = later
          /\ bundle' = [present |-> TRUE,
                        encrypted_key |-> encrypt_with_nonce(to_json(local_key),
                                                             password, clock),
                        encrypted_nonce |-> encrypt_with_nonce(to_json(offline_data),
                                                               password, later)]
    /\ bundle_origin' = [present |-> TRUE, local_key |-> local_key,
                         offline_data |-> offline_data, password |-> password]
    /\ envelope' = <<>>
    /\ origin' = NoOrigin
    /\ enc_call' = [op |-> "encrypt_bundle", password |-> password, out |-> Ok("bundle")]

DecryptBundle(password) ==
    /\ ~Aborted
    /\ bundle.present
    /\ enc_call' = [op |-> "decrypt_bundle", password |-> password,
                    out |-> decrypt_bundle(bundle, password)]
    /\ UNCHANGED <<clock, envelope, origin, bundle, bundle_origin>>

(* ---------------------------- specifications --------------------------- *)
\* no orchestrator runs while the signers are studied, and the reverse
OrchIdle ==
    /\ rust_t = 1 /\ rust_n = 2
    /\ pc = <<>> /\ progress = <<>> /\ ecdsa_offline_data = <<>> /\ joined = <<>>
    /\ batches = <<>>

\* no Sign request has reached an entry point
DispIdle ==
    /\ state_base64 = [present |-> FALSE]
    /\ sign_call = [entry |-> "none"]

\* no round is looked at on its own
RoundIdle == party_round = [stage |-> "none"]

\* no signer is called
SignersIdle ==
    /\ t = 1 /\ n = 2
    /\ signing_parts = <<>> /\ signature = None
    /\ nonce_start_index = 0 /\ op = "none" /\ result = "none"
    /\ completed_offline = 0
    /\ request = 0 /\ nonce_uses = <<>>
    /\ batches = <<>>

SignIdle == DispIdle /\ RoundIdle /\ SignersIdle

\* no envelope is handled
EncIdle ==
    /\ clock = 0 /\ envelope = <<>> /\ origin = NoOrigin
    /\ bundle = NoBundle /\ bundle_origin = NoOrigin
    /\ enc_call = [op |-> "none"]

\* no engine is constructed
EngIdle ==
    /\ engines = [s \in Slots |-> NoEngine]
    /\ wire = {} /\ picked = [s \in Slots |-> 0]
    /\ eng_call = [op |-> "none", slot |-> 0, result |-> "none"]

SignerInit == InitSign /\ DispIdle /\ RoundIdle /\ OrchIdle /\ EncIdle /\ EngIdle

NextSign ==
    \/ EcdsaCall /\ UNCHANGED <<histVars, notSign>>
    \/ \E p \in Parties, m \in Msgs, nonce \in Nonces :
          t_ed25519_sign(p, m, nonce) /\ UNCHANGED <<histVars, notSign>>
    \/ NewRequest /\ UNCHANGED <<histVars, notSign>>

\* the signers over one signing request after another
SignSpec == SignerInit /\ [][NextSign]_vars

NextNonce ==
    \/ EcdsaCall /\ UNCHANGED <<histVars, notSign>>
    \/ \E p \in Parties, m \in Msgs, nonce \in Nonces :
          t_ed25519_sign(p, m, nonce) /\ RecordUse(p, m, nonce) /\ UNCHANGED notSign
    \/ /\ NewRequest
       /\ request < MaxRequests
       /\ request' = request + 1
       /\ UNCHANGED <<nonce_uses, notSign>>

\* the same, with the use of FirstParty's nonce batch recorded
NonceSpec == SignerInit /\ [][NextNonce]_vars

NextBatch ==
    \/ \E start \in 0..(MaxStart + MaxBatch), K \in 0..MaxBatch, oc \in BOOLEAN :
          generate_dynamic_nonces(start, K, oc) /\ UNCHANGED restVars
    \/ \E b \in DOMAIN batches : LoadBatch(b) /\ UNCHANGED restVars
    \/ \E nonce \in BatchNonces :
          t_ed25519_sign(FirstParty, Min(Msgs), nonce) /\ UNCHANGED <<histVars, notSign>>

\* nonce batches are generated and handed to the EdDSA signer
BatchSpec == SignerInit /\ [][NextBatch]_vars

\* the starts a refresh is asked for: the first ones and the last ones a u16
\* holds
RefreshStarts == (0..MaxStart) \cup ((U16Mod - MaxBatch)..(U16Mod - 1))

NextRefresh ==
    \/ \E start \in RefreshStarts, K \in 0..MaxBatch, oc \in BOOLEAN :
          generate_dynamic_nonces(start, K, oc) /\ UNCHANGED restVars
    \/ \E b \in DOMAIN batches : LoadBatch(b) /\ UNCHANGED restVars

\* nonce batches are generated up to the end of the 16-bit index range
RefreshSpec == SignerInit /\ [][NextRefresh]_vars

DispatchInit ==
    /\ InitSign /\ RoundIdle /\ OrchIdle /\ EncIdle /\ EngIdle
    /\ \E scheme \in KeySchemes : state_base64 = EmptyState(scheme)
    /\ sign_call = [entry |-> "none"]

NextDispatch ==
    \/ \E entry \in EntryPoints, p \in Parties : \E signers \in OfflineSigners(p, t) :
          Sign(entry, "ECDSA", p, Min(Msgs), signers, 0) /\ UNCHANGED notDispatch
    \/ \E entry \in EntryPoints, p \in Parties, nonce \in Nonces :
          Sign(entry, "EDDSA", p, Min(Msgs), <<>>, nonce) /\ UNCHANGED notDispatch
    \/ \E scheme \in KeySchemes : NextRequest(scheme) /\ UNCHANGED notDispatch

\* Sign requests of both schemes through both entry points, the state passed
\* from one call to the next in its encoded form
DispatchSpec == DispatchInit /\ [][NextDispatch]_vars

RoundInit == InitRound /\ SignersIdle /\ DispIdle /\ OrchIdle /\ EncIdle /\ EngIdle

NextRound ==
    \/ ProceedRound0 /\ UNCHANGED notRound
    \/ \E valid \in BOOLEAN : ProceedRound1(valid) /\ UNCHANGED notRound
    \/ \E valid \in BOOLEAN : ProceedRound2(valid) /\ UNCHANGED notRound

\* the three rounds of one party of a keygen or offline run, with the messages
\* each round pushes
RoundSpec == RoundInit /\ [][NextRound]_vars

OrchInit == InitOrch /\ SignIdle /\ EncIdle /\ EngIdle

EncInit == InitEnc /\ SignIdle /\ OrchIdle /\ EngIdle

NextEnc ==
    \/ Tick /\ UNCHANGED notEnc
    \/ \E plaintext \in Plaintexts, password \in Passwords :
          Encrypt(plaintext, password) /\ UNCHANGED notEnc
    \/ \E plaintext \in Plaintexts, password \in Passwords, nonce \in ExplicitNonces :
          EncryptWithNonce(plaintext, password, nonce) /\ UNCHANGED notEnc
    \/ \E s \in StringsOver(EnvelopeChars, MaxEnvelope) : Supply(s) /\ UNCHANGED notEnc
    \/ \E password \in Passwords : Decrypt(password) /\ UNCHANGED notEnc
    \/ \E local_key \in KeyIds, offline_data \in KeyIds, password \in Passwords :
          EncryptBundle(local_key, offline_data, password) /\ UNCHANGED notEnc
    \/ \E password \in Passwords : DecryptBundle(password) /\ UNCHANGED notEnc

\* envelopes and persisted bundles are encrypted and decrypted
EncSpec == EncInit /\ [][NextEnc]_vars

\* the orchestrators of the n parties of one wallet room
OrchSpec == OrchInit /\ [][NextOrch]_vars

\* the same over a transport that loses nothing, every party's call running on
OrchLiveSpec ==
    OrchInit /\ [][NextReliable]_vars /\ \A p \in 1..MaxN : WF_vars(OrchStep(p))

\* one engine, constructed with any arguments and driven with any calls
InitEng == EngIdle /\ SignIdle /\ OrchIdle /\ EncIdle

NextEng ==
    \/ \E kind \in EngineKinds, i \in 0..(EngN + 1), tt \in 0..(EngN + 1),
          nn \in 0..EngN, no_nonces \in 0..MaxNonces :
          New(kind, i, tt, nn, no_nonces) /\ UNCHANGED notEng
    \/ \E s \in Slots, msg \in Messages : HandleIncoming(s, msg) /\ UNCHANGED notEng
    \/ \E s \in Slots : Proceed(s) /\ UNCHANGED notEng
    \/ \E s \in Slots : PickOutput(s) /\ UNCHANGED notEng
    \/ \E s \in Slots : SendQueued(s) /\ UNCHANGED notEng

EngineSpec == InitEng /\ [][NextEng]_vars

\* the engines of the n parties of one keygen or offline run
RunEngines ==
    \E kind \in EngineKinds, nn \in 2..RunN :
        \E tt \in 1..(nn - 1) :
            engines = [s \in Slots |->
                          IF s <= nn THEN new_engine(kind, s, tt, nn, 1) ELSE NoEngine]

InitRun ==
    /\ RunEngines
    /\ wire = {} /\ picked = [s \in Slots |-> 0]
    /\ eng_call = Call("new", 0, "Ok")
    /\ SignIdle /\ OrchIdle /\ EncIdle

NextRun ==
    \/ \E s \in Slots : DriverProceed(s) /\ UNCHANGED notEng
    \/ \E s \in Slots : \E w \in wire : Deliver(s, w) /\ UNCHANGED notEng
    \/ \E s \in Slots : SendQueued(s) /\ UNCHANGED notEng
    \/ \E s \in Slots : PickOutput(s) /\ UNCHANGED notEng

RunSpec == InitRun /\ [][NextRun]_vars

\* AsyncProtocol::run of party s: it calls proceed while wants_to_proceed
\* holds, sends what message_queue holds, hands every message of its incoming
\* stream to handle_incoming and picks the output; the room delivers every
\* message it was sent
DriverRuns(s) ==
    /\ WF_vars(DriverProceed(s) /\ UNCHANGED notEng)
    /\ WF_vars(SendQueued(s) /\ UNCHANGED notEng)
    /\ WF_vars((\E w \in wire : Deliver(s, w)) /\ UNCHANGED notEng)
    /\ WF_vars(PickOutput(s) /\ UNCHANGED notEng)

\* a keygen or offline run in which every driver keeps running
RunLiveSpec == InitRun /\ [][NextRun]_vars /\ \A s \in Slots : DriverRuns(s)


(* ------------------------- claims on the signers ----------------------- *)
SignCalled == op \in {"ecdsa", "eddsa"}

\* C1 (as claimed): after any sequence of sign calls that returned, signing_parts
\* holds at most t+1 entries and with exactly t+1 entries the signature is
\* present.  The EdDSA signer appends the last partial before it combines, so
\* a failed verify_local_sigs leaves t+1 partials and no signature.
C1_PartsImplySignature ==
    result # "Panic" =>
        /\ Len(signing_parts) <= t + 1
        /\ Len(signing_parts) = t + 1 => signature.present

\* C2: a sign call returns success with a combined signature in the state only if
\* that signature verified against the public key; in particular the call that
\* supplies the (t+1)-th partial and succeeds leaves a verified signature.
C2_SuccessOnlyIfVerified ==
    (SignCalled /\ result = "Ok") =>
        /\ signature.present => signature.good
        /\ Len(signing_parts) = t + 1 => signature.present

C2_Witness ==
    /\ result = "Ok"
    /\ Len(signing_parts) = t + 1
    /\ signature.present /\ signature.good

\* C3: a sign call (either scheme, any arguments) on a state holding more than t
\* partials returns AlreadySigned and leaves signing_parts and signature as
\* they were.
C3_AlreadySignedIdempotent ==
    [][(Len(signing_parts) > t /\ op' \in {"ecdsa", "eddsa"}) =>
          (result' = "AlreadySigned" /\ UNCHANGED <<signing_parts, signature>>)]_vars

C3_Witness ==
    /\ result = "AlreadySigned"
    /\ Len(signing_parts) = t + 1

\* C4 (as claimed): no entry of a party's nonce batch is used to compute
\* partial signatures for two different signing requests (messages).
C4_NonceNeverReused ==
    \A k \in DOMAIN nonce_uses :
        \A u, v \in nonce_uses[k] : u[1] # v[1] => u[2] = v[2]

\* C5 (as claimed): EdDSA sign with a nonce outside
\* [nonce_start_index, nonce_start_index + len) on a state that is not fully
\* signed returns NonceOutOfRange and leaves the state unchanged.
C5_OutOfRangeIsError ==
    [][\A p \in Parties, m \in Msgs, nonce \in Nonces :
          (/\ t_ed25519_sign(p, m, nonce)
           /\ ~already_signed(signing_parts, t)
           /\ (nonce < nonce_start_index \/ nonce >= nonce_start_index + BatchLen))
          => (result' = "NonceOutOfRange" /\ UNCHANGED <<signing_parts, signature>>)]_vars

\* C6 (as claimed): ECDSA sign with signers matching no stored offline result
\* (as a set) returns NoOfflineForSubset and leaves the state unchanged.
C6_NoOfflineIsError ==
    [][\A p \in Parties, m \in Msgs, signers \in SignerLists :
          (/\ gg20_sign(p, m, signers)
           /\ ~already_signed(signing_parts, t)
           /\ \A k \in DOMAIN OfflineData[p, t] :
                 SetOf(OfflineData[p, t][k].parties) # SetOf(signers))
          => (result' = "NoOfflineForSubset" /\ UNCHANGED <<signing_parts, signature>>)]_vars

\* C7: when the final verification of the combined signature fails, sign returns
\* SignatureVerificationFailed with the state full (t+1 partials, the bad
\* signature stored), and every later sign call on that state fails with
\* AlreadySigned and appends nothing.
C7_FailedVerificationIsTerminal ==
    /\ [](result = "SignatureVerificationFailed" <=>
            (SignCalled /\ signature.present /\ ~signature.good /\ result # "AlreadySigned"))
    /\ [](signature.present => Len(signing_parts) = t + 1)
    /\ [][((signature.present /\ ~signature.good) /\ op' \in {"ecdsa", "eddsa"}) =>
            (result' = "AlreadySigned" /\ UNCHANGED <<signing_parts, signature>>)]_vars

C7_Witness ==
    /\ result = "AlreadySigned"
    /\ signature.present /\ ~signature.good

\* C8 (as claimed): when the combine step meets a recorded partial of the other
\* scheme's variant, sign returns the WrongPartialVariant error to its caller.
C8_WrongVariantIsError ==
    [][/\ \A p \in Parties, m \in Msgs, signers \in SignerLists :
            (/\ gg20_sign(p, m, signers)
             /\ Len(signing_parts) = t
             /\ find_offline(OfflineData[p, t], signers) # 0
             /\ \E i \in DOMAIN signing_parts : signing_parts[i].scheme # "ECDSA")
            => result' = "WrongPartialVariant"
       /\ \A p \in Parties, m \in Msgs, nonce \in Nonces :
            (/\ t_ed25519_sign(p, m, nonce)
             /\ Len(signing_parts) = t
             /\ computes_partial(nonce)
             /\ \E i \in DOMAIN signing_parts : signing_parts[i].scheme # "EDDSA")
            => result' = "WrongPartialVariant"]_vars

(* ------------------------ claims on nonce batches ---------------------- *)
\* the nonce values the range test of sign lets through for a batch
Accepted(batch, overflow_checks) ==
    {v \in BatchNonces :
        range_check(v, batch.nonce_start_index, batch.completed_offline,
                    overflow_checks) = "InRange"}

C38_NonceSizeIsStartPlusK ==
    \A i \in DOMAIN batches :
        /\ batches[i].completed_offline >= 1
        /\ batches[i].nonce_size
              = batches[i].nonce_start_index + batches[i].completed_offline
        /\ batches[i].nonce_size >= batches[i].nonce_start_index

(* ------------------------- claims on envelopes ------------------------- *)
\* the AES-GCM IV an envelope was sealed under
IvOf(env) == env[Len(env)].box[2]

\* C40: the encrypted_key and encrypted_nonce envelopes of one bundle, both
\* sealed under the bundle's password by two consecutive encrypt calls, never
\* carry the same nonce and so never the same IV.
C40_BundleNoncesDiffer ==
    bundle.present => IvOf(bundle.encrypted_key) # IvOf(bundle.encrypted_nonce)

\* C12: decrypting an envelope made by encrypt or encrypt_with_nonce with the
\* password it was made with gives back the plaintext, and decrypt_ecdsa /
\* decrypt_eddsa on an encrypted bundle give back the local key and the
\* offline data.
C12_EnvelopeRoundTrip ==
    /\ (enc_call.op = "decrypt" /\ origin.present /\ enc_call.password = origin.password)
          => (enc_call.out.ok /\ enc_call.out.value = origin.plaintext)
    /\ (enc_call.op = "decrypt_bundle" /\ bundle_origin.present
           /\ enc_call.password = bundle_origin.password)
          => /\ enc_call.out.ok
             /\ enc_call.out.value = [local_key |-> bundle_origin.local_key,
                                      offline_data |-> bundle_origin.offline_data]

C12_Witness ==
    /\ enc_call.op = "decrypt" /\ origin.present
    /\ enc_call.password = origin.password
    /\ origin.nonce >= 10
    /\ \E i \in DOMAIN origin.plaintext : origin.plaintext[i] = Char(":")

\* C13 (as claimed): decrypt on a malformed envelope (no ':', a nonce part
\* that is not decimal, a ciphertext part that is not base64) returns an
\* error value and never aborts.
C13_MalformedIsError ==
    enc_call.op = "decrypt" => ~Panicked(enc_call.out)

(* ----------------------- claims on the EdDSA engines ------------------- *)
\* the engine of party s holds the keys it derived from the round-1 broadcasts
Derived(s) == Constructed(s) /\ engines[s].round.tag \in {"Round2", "Final"}

\* C14: all parties that complete the same EdDSA keygen run derive the same
\* agg_pubkey and the same pubkeys_list, ordered by party index, whatever
\* order the round-1 broadcasts arrived in at each party
C14_PublicKeyAgreement ==
    \A s1 \in Slots, s2 \in Slots :
        Derived(s1) /\ Derived(s2) =>
            LET r1 == engines[s1].round
                r2 == engines[s2].round
            IN /\ r1.agg_pubkey = r2.agg_pubkey
               /\ r1.pubkeys_list = r2.pubkeys_list
               /\ r1.pubkeys_list = [j \in 1..engines[s1].party_n |-> PubKey(j)]

\* the RunN parties of a keygen run have all completed it
C14_Witness ==
    \A s \in Slots : /\ engines[s].kind = "keygen"
                      /\ engines[s].round.tag = "Final"

\* the arguments under which the constructor is said to succeed
ValidArguments(kind, i, tt, nn, no_nonces) ==
    /\ nn >= 2
    /\ 1 <= tt /\ tt < nn
    /\ 1 <= i /\ i <= nn
    /\ kind = "offline" => no_nonces >= 1

\* what a call of the constructor did, by its arguments
ConstructionAsClaimed(kind, i, tt, nn, no_nonces) ==
    LET r == eng_call'.result
    IN /\ r = "Ok" <=> ValidArguments(kind, i, tt, nn, no_nonces)
       /\ nn < 2 => r = "TooFewParties"
       /\ nn >= 2 /\ kind = "offline" /\ no_nonces < 1 => r = "TooFewNonces"
       /\ nn >= 2 /\ (kind = "offline" => no_nonces >= 1) /\ (tt = 0 \/ tt >= nn)
             => r = "InvalidThreshold"
       /\ nn >= 2 /\ (kind = "offline" => no_nonces >= 1) /\ 1 <= tt /\ tt < nn
             /\ (i = 0 \/ i > nn) => r = "InvalidPartyIndex"
       /\ r # "Ok" => engines' = engines
       /\ r = "Ok" => /\ engines'[i].round.tag = "Round0"
                      /\ engines'[i].party_i = i /\ engines'[i].party_n = nn
                      /\ engines'[i].kind = kind

AlreadyContributed(e, msg) == msg.sender \in Senders(StoreOf(e, msg.round))
ToAnotherParty(e, msg) == msg.receiver # 0 /\ msg.receiver # e.party_i
SenderNotAPeer(e, msg) ==
    msg.sender < 1 \/ msg.sender > e.party_n \/ msg.sender = e.party_i

\* C16: handle_incoming rejects with an error a second message from a sender
\* that already contributed to the same round, a P2P message addressed to
\* another party, and a message whose sender is outside [1, n] or is the party
\* itself; a rejected message changes neither the round's store nor the
\* engine's current round nor its outbound queue
C16_BadMessagesRejected ==
    \A s \in Slots : Usable(s) =>
        \A msg \in Messages :
            (\/ AlreadyContributed(engines[s], msg)
             \/ ToAnotherParty(engines[s], msg)
             \/ SenderNotAPeer(engines[s], msg))
                => \A o \in handle_incoming(engines[s], msg) :
                      /\ o.result \notin {"Ok", "Panic"}
                      /\ o.engine.msgs1 = engines[s].msgs1
                      /\ o.engine.msgs2 = engines[s].msgs2
                      /\ o.engine.round = engines[s].round
                      /\ o.engine.msgs_queue = engines[s].msgs_queue

\* a second message of a sender was handed in and refused
C16_Witness ==
    \E s \in Slots : /\ eng_call = Call("handle_incoming", s, "DuplicateSender")
                      /\ engines[s].msgs1.msgs \cup engines[s].msgs2.msgs # {}

\* msg is what the store of its round holds of its sender or, when the round
\* was completed by it, what the next round took from it
Delivered(e, msg) ==
    LET store == StoreOf(e, msg.round)
    IN IF store.present
       THEN [sender |-> msg.sender, body |-> msg.body] \in store.msgs
       ELSE /\ msg.round = 1
            /\ e.round.tag = "Round2"
            /\ e.round.pubkeys_list[msg.sender] = msg.body.key

\* the engine has not reached the round that collects msg
NotReached(e, msg) == current_round(e) < msg.round

\* C17 as stated: handle_incoming delivers a message to the store of the
\* message's own round, and fails with the out-of-order error when that
\* round's store is gone or the engine has not reached the round yet
C17_EarlyMessageOutOfOrder ==
    \A s \in Slots : Usable(s) =>
        \A msg \in Messages : \A o \in handle_incoming(engines[s], msg) :
            /\ o.result = "Ok" => Delivered(o.engine, msg)
            /\ (~StoreOf(engines[s], msg.round).present \/ NotReached(engines[s], msg))
                  => o.result = "ReceivedOutOfOrderMessage"

\* C17 amended: handle_incoming delivers a message to the store of the
\* message's own round and leaves the other store alone; it fails with the
\* out-of-order error exactly when that round's store was consumed by a
\* transition; both stores exist from construction, so a message the store
\* accepts is kept even when the engine has not reached its round
C17_OutOfOrderOnlyWhenStoreGone ==
    \A s \in Slots : Usable(s) =>
        \A msg \in Messages : \A o \in handle_incoming(engines[s], msg) :
            LET e == engines[s]
                store == StoreOf(e, msg.round)
            IN /\ o.result = "Ok" => Delivered(o.engine, msg)
               /\ StoreOf(o.engine, 3 - msg.round) = StoreOf(e, 3 - msg.round)
               /\ o.result = "ReceivedOutOfOrderMessage" <=> ~store.present
               /\ current_round(e) <= 2 => (store.present <=> current_round(e) <= msg.round)
               /\ (/\ NotReached(e, msg)
                   /\ push_check(store, msg.round, e.party_i, e.party_n, msg) = "Ok")
                     => o.result = "Ok" /\ o.engine.round = e.round

\* a round-2 message was accepted by an engine still in Round0
C17_Witness ==
    \E s \in Slots : /\ eng_call = Call("handle_incoming", s, "Ok")
                      /\ engines[s].round.tag = "Round0"
                      /\ engines[s].msgs2.msgs # {}

\* the store holds a message of each of the n - 1 other parties
Full(store, nn) == store.present /\ Cardinality(Senders(store)) = nn - 1

\* C18: in every reachable engine state wants_to_proceed() is true exactly
\* when the engine is in round 0, or in round 1 with the broadcast store full,
\* or in round 2 with the P2P store full; it is false in Final and Gone;
\* equivalently it is true exactly when proceed() would change the current round
C18_WantsToProceed ==
    \A s \in Slots : Constructed(s) =>
        LET e == engines[s]
        IN /\ wants_to_proceed(e) <=>
                 \/ e.round.tag = "Round0"
                 \/ e.round.tag = "Round1" /\ Full(e.msgs1, e.party_n)
                 \/ e.round.tag = "Round2" /\ Full(e.msgs2, e.party_n)
           /\ e.round.tag \in {"Final", "Gone"} => ~wants_to_proceed(e)
           /\ wants_to_proceed(e) <=>
                 \A o \in proceed_round(e, TRUE) :
                     current_round(o.engine) # current_round(e)
           /\ ~wants_to_proceed(e) =>
                 \A o \in proceed_round(e, TRUE) : o.engine = e

\* the last P2P message arrived: the engine rests in round 2 with the store full
C18_Witness ==
    \E s \in Slots : /\ eng_call.op = "handle_incoming" /\ eng_call.slot = s
                      /\ engines[s].round.tag = "Round2"
                      /\ Full(engines[s].msgs2, engines[s].party_n)
                      /\ wants_to_proceed(engines[s])

\* what one call of pick_output on the engine of party s did
PickAsClaimed(s) ==
    LET tag == engines[s].round.tag
        r == eng_call'.result
    IN /\ tag \notin {"Final", "Gone"} =>
             r = "Nothing" /\ engines' = engines /\ picked' = picked
       /\ tag = "Final" =>
             /\ r = "Output"
             /\ engines'[s].round.tag = "Gone"
             /\ picked'[s] = picked[s] + 1
       /\ picked[s] >= 1 =>
             r = "DoublePickOutput" /\ engines' = engines /\ picked' = picked

\* C19: pick_output returns nothing while the engine has not reached Final;
\* the first call in Final returns the output and moves the engine to Gone;
\* every later call returns DoublePickOutput; over any sequence of operations
\* the output is handed out at most once, and is_finished is false after it
\* has been picked
C19_PickOutputOnce ==
    /\ [](\A s \in Slots : Constructed(s) =>
             /\ picked[s] <= 1
             /\ picked[s] >= 1 => ~is_finished(engines[s])
             /\ Usable(s) /\ engines[s].round.tag = "Gone" => picked[s] = 1)
    /\ [][eng_call'.op = "pick_output" =>
             \A s \in Slots : PickOutput(s) => PickAsClaimed(s)]_vars

\* the output was picked once and a later call got DoublePickOutput
C19_Witness ==
    \E s \in Slots : /\ eng_call = Call("pick_output", s, "DoublePickOutput")
                      /\ picked[s] = 1

\* the engine of party s left its rounds without ever handing out an output:
\* a round transition failed
TransitionFailed(s) ==
    /\ Constructed(s)
    /\ engines[s].round.tag = "Gone"
    /\ picked[s] = 0

\* C20: when a round transition fails (a commitment does not open in round 1,
\* a VSS share does not verify in round 2) the call that triggered it returns
\* a ProceedRound error value and the engine is left in Gone: is_finished is
\* false, wants_to_proceed is false and no output can ever be picked
C20_FailedTransitionReturnsError ==
    \A s \in Slots :
        (/\ TransitionFailed(s)
         /\ eng_call.op \in {"proceed", "handle_incoming"}
         /\ eng_call.slot = s)
            => /\ eng_call.result = "ProceedRound"
               /\ ~is_finished(engines[s])
               /\ ~wants_to_proceed(engines[s])
               /\ pick_output(engines[s]).result # "Output"

\* the receivers of the P2P messages in a queue, in queue order
RECURSIVE p2p_receivers(_)
p2p_receivers(q) ==
    IF q = <<>> THEN <<>>
    ELSE (IF Head(q).receiver # 0 THEN <<Head(q).receiver>> ELSE <<>>)
             \o p2p_receivers(Tail(q))

\* the rounds of the messages in a queue, in queue order
queue_rounds(q) == [k \in DOMAIN q |-> q[k].round]

NonDecreasing(q) == \A k \in 1..(Len(q) - 1) : q[k] <= q[k + 1]

\* C21: in every transition of the keygen and offline engines the messages
\* are appended to the outbound queue with the party's own round message
\* first and the per-peer P2P messages in ascending order of the receiver
C21_QueueOrderedByReceiver ==
    \A s \in Slots : Constructed(s) =>
        LET q == engines[s].msgs_queue
        IN /\ NonDecreasing(queue_rounds(q))
           /\ p2p_receivers(q) = Ascending(SetOf(p2p_receivers(q)))

\* party s has sent all its messages of round rnd to the room
SentAll(s, rnd) ==
    /\ current_round(engines[s]) >= rnd
    /\ \A k \in DOMAIN engines[s].msgs_queue : engines[s].msgs_queue[k].round # rnd

\* a message of round rnd from s is on its way to r, or r took it
InStream(s, r, rnd) ==
    \/ \E w \in wire : w.to = r /\ w.msg.sender = s /\ w.msg.round = rnd
    \/ s \in Senders(StoreOf(engines[r], rnd))
    \/ ~StoreOf(engines[r], rnd).present

\* C22: the incoming stream join_computation gives an engine contains a
\* transport message if and only if its sender differs from the party's index
\* and its receiver is absent or equal to the party's index; all other
\* messages are dropped and never reach handle_incoming
C22_IncomingStreamFiltered ==
    /\ \A w \in wire :
          /\ w.msg.sender # w.to
          /\ w.msg.receiver = 0 \/ w.msg.receiver = w.to
    /\ eng_call.op = "handle_incoming" =>
          eng_call.result \notin {"InvalidSender", "UnexpectedReceiver"}
    /\ \A s \in Slots, r \in Slots, rnd \in 1..2 :
          (Constructed(s) /\ Constructed(r) /\ s # r /\ SentAll(s, rnd))
              => InStream(s, r, rnd)

\* party 1 sent its broadcast and its P2P messages: each P2P message is in
\* the stream of the party it is addressed to
C22_Witness ==
    /\ \E w \in wire : w.to = 2 /\ w.msg.sender = 1 /\ w.msg.receiver = 2
    /\ \E w \in wire : w.to = 3 /\ w.msg.sender = 1 /\ w.msg.receiver = 3
    /\ SentAll(1, 1) /\ SentAll(1, 2)

(* ---------------------- claims on the orchestrator --------------------- *)
RECURSIVE Binomial(_, _)
Binomial(a, b) ==
    IF b = 0 THEN 1 ELSE IF a = 0 THEN 0
    ELSE Binomial(a - 1, b - 1) + Binomial(a - 1, b)

OfflineRuns(p) == SelectSeq(joined[p], LAMBDA j : j.kind = "offline")

SubsetsWith(p) ==
    {S \in SUBSET OrchParties : Cardinality(S) = rust_t + 1 /\ p \in S}

SmallSets == {S \in SUBSET (1..RoomIdMax) : Cardinality(S) \in 1..3}

RoomNamesInjective ==
    \A S1, S2 \in SmallSets :
        offline_room(Ascending(S1)) = offline_room(Ascending(S2)) => S1 = S2

\* C10: the parties of a subset S all run the offline protocol for S in the
\* same room, and runs for different subsets are in different rooms.
C10_RoomNamesAgree ==
    /\ \A p, q \in OrchParties :
          \A i \in DOMAIN joined[p], j \in DOMAIN joined[q] :
              (joined[p][i].kind = "offline" /\ joined[q][j].kind = "offline") =>
                  (SetOf(joined[p][i].parties) = SetOf(joined[q][j].parties)
                      <=> joined[p][i].room = joined[q][j].room)
    /\ RoomNamesInjective

C10_Witness ==
    \E p, q \in OrchParties :
        /\ p # q
        /\ \E i \in DOMAIN joined[p], j \in DOMAIN joined[q] :
              /\ joined[p][i].kind = "offline"
              /\ joined[p][i].room = joined[q][j].room
        /\ \E i, j \in DOMAIN joined[p] :
              /\ joined[p][i].kind = "offline" /\ joined[p][j].kind = "offline"
              /\ joined[p][i].room # joined[p][j].room

\* the (start, size) pairs of nonce batches whose rooms are compared
BatchArgs == (0..RoomIdMax) \X (0..RoomIdMax)

\* the rooms of the sub-protocols that run once, and of every offline subset
FixedRooms ==
    {spelled(ecdsa_keygen_room), spelled(eddsa_keygen_room)}
        \cup {spelled(offline_room(Ascending(S))) : S \in SmallSets}

\* two nonce batches share a room only if they have the same start and size,
\* and no nonce batch uses the room of another sub-protocol
NonceRoomsApart ==
    /\ \A a, b \in BatchArgs :
          spelled(nonce_room(a[1], a[2])) = spelled(nonce_room(b[1], b[2])) => a = b
    /\ \A a \in BatchArgs : spelled(nonce_room(a[1], a[2])) \notin FixedRooms
    /\ spelled(ecdsa_keygen_room) # spelled(eddsa_keygen_room)
    /\ \A S \in SmallSets :
          spelled(offline_room(Ascending(S)))
              \notin {spelled(ecdsa_keygen_room), spelled(eddsa_keygen_room)}

\* C23: within one wallet room the transport rooms of ECDSA keygen, of each
\* per-subset ECDSA offline run, of EdDSA keygen and of each nonce batch
\* (start, size) are pairwise different, so a message sent in one sub-protocol
\* is never delivered to an engine of another
C23_RoomsPairwiseDifferent ==
    /\ \A p, q \in OrchParties :
          \A i \in DOMAIN joined[p], j \in DOMAIN joined[q] :
              spelled(joined[p][i].room) = spelled(joined[q][j].room) =>
                  /\ joined[p][i].kind = joined[q][j].kind
                  /\ SetOf(joined[p][i].parties) = SetOf(joined[q][j].parties)
    /\ NonceRoomsApart

\* a party went through all its sub-protocols, the other parties with it
C23_Witness ==
    \E p \in OrchParties :
        /\ pc[p] = "done"
        /\ {joined[p][k].kind : k \in DOMAIN joined[p]}
               = {"ecdsa_keygen", "offline", "eddsa_keygen", "nonces"}

\* the join_computation calls of a complete keygen_and_offline of party p
ExpectedJoins(p) ==
    LET subsets == all_subsets_parties(p, rust_t, rust_n)
    IN <<Joined("ecdsa_keygen", ecdsa_keygen_room, all_parties(rust_n))>>
       \o [k \in DOMAIN subsets |->
              Joined("offline", offline_room(Sort(subsets[k])), Sort(subsets[k]))]
       \o <<Joined("eddsa_keygen", eddsa_keygen_room, all_parties(rust_n)),
            Joined("nonces", nonce_room(0, BatchLen), all_parties(rust_n))>>

IsPrefix(a, b) == Len(a) <= Len(b) /\ a = SubSeq(b, 1, Len(a))

\* party p starts a sub-protocol in this step
Starts(p) == Len(joined'[p]) > Len(joined[p])

\* the sub-protocol party p started last has been joined by all its members
LastRunComplete(p) ==
    joined[p] # <<>> =>
        LET last == joined[p][Len(joined[p])]
        IN AllJoined(last.room, SetOf(last.parties))

\* C24: the orchestrator of one party runs its sub-protocols one after
\* another in the order ECDSA keygen, ECDSA offline for each subset in
\* enumeration order, EdDSA keygen, nonce batch with start index 0; a
\* sub-protocol starts only after the previous one has finished, and when one
\* fails no later sub-protocol is started and no bundle is returned
C24_SubProtocolsInSequence ==
    /\ [](\A p \in OrchParties :
             /\ IsPrefix(joined[p], ExpectedJoins(p))
             /\ pc[p] = "done" => joined[p] = ExpectedJoins(p) /\ LastRunComplete(p))
    /\ [][\A p \in OrchParties :
             /\ Starts(p) => LastRunComplete(p) /\ pc[p] \notin {"failed", "done"}
             /\ pc[p] = "failed" =>
                   /\ pc'[p] = "failed"
                   /\ joined'[p] = joined[p]
                   /\ ecdsa_offline_data'[p] = ecdsa_offline_data[p]]_vars

\* a party's offline run failed after its first one succeeded, while another
\* party went on
C24_Witness ==
    \E p, q \in OrchParties :
        /\ pc[p] = "failed" /\ Len(joined[p]) = 3
        /\ Len(joined[q]) > 3

\* the last Sign request was served and returned a state
Served == sign_call.entry # "none" /\ sign_call.result = "Ok"

\* C25: the state a Sign request returns carries the key_scheme of the request
\* as its tag, and decoding it gives back the state the signer left: the same
\* t, n and signature and the same partials, in order, with their variants
C25_ReturnedStateRoundTrips ==
    Served =>
        /\ state_base64.key_scheme = sign_call.key_scheme
        /\ decodes(state_base64)
        /\ signing_state_base64_to_obj(state_base64) =
              SigningState(t, n, signing_parts, signature)

\* the request's nonce lies in the batch of the local key
InBatch(nonce) ==
    nonce >= nonce_start_index /\ nonce - nonce_start_index < completed_offline

\* C26: an EdDSA Sign request with nonce v, through either entry point, computes
\* its partial signature with batch entry v - nonce_start_index, and is turned
\* down as out of range only when v is outside the batch
C26_SignsWithRequestNonce ==
    (sign_call.entry # "none" /\ sign_call.key_scheme = "EDDSA") =>
        /\ sign_call.result = "Ok" =>
              signing_parts[Len(signing_parts)].slot = sign_call.nonce - nonce_start_index
        /\ sign_call.result = "NonceOutOfRange" => ~InBatch(sign_call.nonce)

\* the call of this step went through SignManual::complete / the EdDSA
\* aggregation: it stored a signature or failed inside the combiner
RanCombiner ==
    \/ signature' # signature
    \/ result' \in {"OnlineStageFailed", "VerifyLocalSigFailed",
                    "SignatureVerificationFailed"}

\* the call of this step appended one partial to the state
AppendedOne ==
    /\ Len(signing_parts') = Len(signing_parts) + 1
    /\ SubSeq(signing_parts', 1, Len(signing_parts)) = signing_parts

\* C27: a sign call runs the combiner exactly when the state held t partials
\* before the call; on fewer than t partials a call appends one partial at most
\* and leaves the signature absent, so the signature is absent as long as
\* fewer than t+1 partials are recorded
C27_CombinerAtThreshold ==
    /\ [][op' \in {"ecdsa", "eddsa"} =>
            /\ RanCombiner => Len(signing_parts) = t
            /\ (Len(signing_parts) = t /\ result' = "Ok") =>
                  (signature'.present /\ AppendedOne)
            /\ Len(signing_parts) < t =>
                  /\ signature' = signature
                  /\ IF result' = "Ok" THEN AppendedOne
                     ELSE signing_parts' = signing_parts]_vars
    /\ [](Len(signing_parts) < t + 1 => ~signature.present)

\* the EdDSA call on t recorded partials combined them into the signature
C27_Witness ==
    /\ op = "eddsa" /\ result = "Ok"
    /\ Len(signing_parts) = t + 1
    /\ signature.present

\* the recorded partials and the one party p computes from batch entry `entry`
\* are EdDSA shares of one message from that entry, of different parties
SharesOfEntry(p, m, entry) ==
    LET all == Append(signing_parts, Partial(p, "EDDSA", m, entry))
    IN /\ \A i \in DOMAIN all : all[i].scheme = "EDDSA"
       /\ shares_fit(all, entry)
       /\ Cardinality(PartyIds(all)) = Len(all)

\* C28: an EdDSA sign call verifies the local signatures and aggregates the
\* final signature with the batch entry it computed its partial from, the one
\* at nonce - nonce_start_index; so the call that completes t+1 shares of that
\* entry succeeds with a valid signature, for every nonce_start_index
C28_OneBatchEntry ==
    [][(op' = "eddsa" /\ Len(signing_parts) = t) =>
          \A p \in Parties, m \in Msgs, nonce \in Nonces :
             (/\ t_ed25519_sign(p, m, nonce)
              /\ computes_partial(nonce)
              /\ SharesOfEntry(p, m, nonce - nonce_start_index))
             => (result' = "Ok" /\ signature'.present /\ signature'.good)]_vars

DistinctSigners == Cardinality(PartyIds(signing_parts)) = t + 1

\* C29: a state whose signature is present holds t+1 partials of t+1 different
\* parties, and a state counts as fully signed only with partials of t+1
\* different parties: a party that signs twice is not counted twice
C29_SignatureFromDistinctParties ==
    /\ signature.present => (Len(signing_parts) = t + 1 /\ DistinctSigners)
    /\ already_signed(signing_parts, t) => DistinctSigners

\* proceed() finds nothing to do: the store of the current round is not full,
\* or the engine is past its last round
NothingPending(e) ==
    \/ e.round.tag = "Round1" /\ wants_more(e.msgs1, e.party_n)
    \/ e.round.tag = "Round2" /\ wants_more(e.msgs2, e.party_n)
    \/ e.round.tag \in {"Final", "Gone"}

\* C30: proceed() performs the pending transition, expensive or not, and keeps
\* advancing while the store of the round it arrives in is full: a call that
\* succeeds leaves the engine where nothing is pending, so with both stores
\* filled beforehand one call takes the engine from round 0 to Final; when
\* nothing is pending the call succeeds and changes nothing
C30_ProceedAdvancesThroughFullRounds ==
    [][eng_call'.op = "proceed" =>
          LET s == eng_call'.slot
              e == engines[s]
          IN /\ NothingPending(e) => (eng_call'.result = "Ok" /\ engines' = engines)
             /\ eng_call'.result = "Ok" =>
                   /\ NothingPending(engines'[s])
                   /\ current_round(engines'[s]) >= current_round(e)
                   /\ (e.round.tag = "Round0" /\ Full(e.msgs1, e.party_n)
                                              /\ Full(e.msgs2, e.party_n))
                         => engines'[s].round.tag = "Final"
                   /\ UNCHANGED <<wire, picked>>]_vars

\* one proceed() call took the engine from round 0 to Final
C30_Witness ==
    \E s \in Slots : /\ eng_call = ProceedCall(s, "Ok", 0)
                      /\ engines[s].round.tag = "Final"

\* the messages the queue of e2 holds beyond the queue of e
Enqueued(e, e2) == SubSeq(e2.msgs_queue, Len(e.msgs_queue) + 1, Len(e2.msgs_queue))

\* e2 left round 1 of e: the broadcast store is consumed and one round-2
\* message per peer is enqueued behind what the queue held
LeftRound1(e, e2) ==
    /\ e2.round.tag = "Round2"
    /\ ~e2.msgs1.present
    /\ SubSeq(e2.msgs_queue, 1, Len(e.msgs_queue)) = e.msgs_queue
    /\ Len(Enqueued(e, e2)) = e.party_n - 1
    /\ \A k \in DOMAIN Enqueued(e, e2) : Enqueued(e, e2)[k].round = 2

\* C31: the constructor and handle_incoming run no expensive transition: a
\* constructed engine is in round 0 with an empty queue; handle_incoming leaves
\* round 0 and round 2 alone and never reaches Final; the call that fills the
\* broadcast store in round 1 moves the engine to round 2 within the call and
\* enqueues the round-2 messages
C31_NoExpensiveTransitionOnIncoming ==
    [][/\ (eng_call'.op = "new" /\ eng_call'.result = "Ok") =>
            LET e2 == engines'[eng_call'.slot]
            IN e2.round.tag = "Round0" /\ e2.msgs_queue = <<>>
       /\ eng_call'.op = "handle_incoming" =>
            LET e == engines[eng_call'.slot]
                e2 == engines'[eng_call'.slot]
            IN /\ e2.round.tag # "Final" \/ e.round.tag = "Final"
               /\ e.round.tag \in {"Round0", "Round2"} =>
                     (e2.round = e.round /\ e2.msgs_queue = e.msgs_queue)
               /\ (e.round.tag = "Round1" /\ eng_call'.result = "Ok") =>
                     IF wants_more(e2.msgs1, e2.party_n)
                     THEN e2.round = e.round /\ e2.msgs_queue = e.msgs_queue
                     ELSE LeftRound1(e, e2)]_vars

\* handle_incoming filled the broadcast store in round 1: the engine is in
\* round 2, its round-2 messages enqueued, and stays there with the P2P
\* store full as well
C31_Witness ==
    \E s \in Slots :
        /\ eng_call = Call("handle_incoming", s, "Ok")
        /\ engines[s].round.tag = "Round2"
        /\ ~engines[s].msgs1.present
        /\ Full(engines[s].msgs2, engines[s].party_n)
        /\ \E k \in DOMAIN engines[s].msgs_queue : engines[s].msgs_queue[k].round = 2

\* the place of the engine's state in the chain Round0 .. Gone
Rank(e) ==
    CASE e.round.tag = "Round0" -> 0
      [] e.round.tag = "Round1" -> 1
      [] e.round.tag = "Round2" -> 2
      [] e.round.tag = "Final" -> 3
      [] OTHER -> 4

RoundMessages(q, rnd) == Cardinality({k \in DOMAIN q : q[k].round = rnd})

\* what one call did to the engine e, leaving e2 and returning r
MovesForward(e, e2, r) ==
    /\ Rank(e2) >= Rank(e)
    /\ current_round(e2) >= current_round(e)
    \* Gone is entered from Final by pick_output, or on an error
    /\ (e2.round.tag = "Gone" /\ e.round.tag # "Gone") =>
          (r # "Ok" \/ e.round.tag = "Final")
    \* every round on the way was run: its messages were enqueued
    /\ (Rank(e) = 0 /\ Rank(e2) \in 1..3) =>
          RoundMessages(Enqueued(e, e2), 1) = 1
    /\ (Rank(e) <= 1 /\ Rank(e2) \in 2..3) =>
          RoundMessages(Enqueued(e, e2), 2) = e.party_n - 1
    \* a store is never put back, and goes when its round is left
    /\ ~e.msgs1.present => ~e2.msgs1.present
    /\ ~e.msgs2.present => ~e2.msgs2.present
    /\ (e.msgs1.present /\ ~e2.msgs1.present) => (Rank(e) <= 1 /\ Rank(e2) > 1)
    /\ (e.msgs2.present /\ ~e2.msgs2.present) => (Rank(e) <= 2 /\ Rank(e2) > 2)
    /\ (Rank(e) <= 1 /\ Rank(e2) \in 2..3) => (e.msgs1.present /\ ~e2.msgs1.present)
    /\ (Rank(e) <= 2 /\ Rank(e2) = 3) => (e.msgs2.present /\ ~e2.msgs2.present)

\* C32: over any sequence of handle_incoming, proceed and pick_output calls the
\* engine moves forward along Round0, Round1, Round2, Final, Gone, or to Gone
\* on an error: no round is skipped, current_round() never decreases, and the
\* store of a round is consumed once, at the transition that leaves the round
C32_RoundsMoveForward ==
    [][eng_call'.op \in {"handle_incoming", "proceed", "pick_output"} =>
          MovesForward(engines[eng_call'.slot], engines'[eng_call'.slot],
                       eng_call'.result)]_vars

\* a proceed() call took the engine from round 2 to Final and consumed the
\* P2P store
C32_Witness ==
    \E s \in Slots : /\ eng_call = ProceedCall(s, "Ok", 2)
                      /\ engines[s].round.tag = "Final"
                      /\ ~engines[s].msgs1.present /\ ~engines[s].msgs2.present

\* the round-1 broadcast of party s is still in its outbound queue
BroadcastQueued(s) == RoundMessages(engines[s].msgs_queue, 1) > 0

LoopCompleted(p) ==
    /\ p \in OrchParties
    /\ pc[p] \in {"eddsa_keygen", "nonces", "done"}
    /\ progress[p] = Len(all_subsets_parties(p, rust_t, rust_n))
    /\ Len(ecdsa_offline_data[p]) = progress[p]

\* C37: when all n parties run keygen_and_offline and no run fails, the
\* offline runs, each waiting for the t+1 members of its subset while every
\* party takes its subsets one at a time in enumeration order, never block
\* each other: every party completes all its runs and joins the EdDSA keygen.
C37_OfflineLoopCompletes ==
    \A p \in 1..MaxN : (p \in OrchParties) ~> LoopCompleted(p)

\* MaxN parties, each in several subsets, have all left the loop
C37_Witness ==
    /\ rust_n = MaxN /\ rust_t < rust_n - 1
    /\ \A p \in OrchParties : LoopCompleted(p) /\ progress[p] >= 2

(* ------------------- claims on the order of arrival -------------------- *)
\* what a run of nn parties ends in at every party
FinalOutput(nn) ==
    LET pubkeys_list == [j \in 1..nn |-> PubKey(j)]
    IN Round("Final", Body(0, TRUE), pubkeys_list, fold_sum(pubkeys_list))

\* what the stores of e hold is still held, or was handed to a transition
StoresKept(e, e2) ==
    \A rnd \in 1..2 :
        StoreOf(e, rnd).present /\ StoreOf(e2, rnd).present
            => StoreOf(e, rnd).msgs \subseteq StoreOf(e2, rnd).msgs

\* C35: in a keygen or offline run, in whatever order the peers' messages
\* arrive, handle_incoming accepts every message without error and keeps it
\* until the round's transition takes the store; a transition is handed the
\* messages in the order of the senders' indices with the party's own at its
\* own index, and every party ends in the same Final output.
C35_AnyArrivalOrder ==
    /\ [](\A s \in Slots : Derived(s) =>
            /\ engines[s].round.pubkeys_list
                  = [j \in 1..engines[s].party_n |-> PubKey(j)]
            /\ engines[s].round.tag = "Final"
                  => engines[s].round = FinalOutput(engines[s].party_n))
    /\ [][/\ eng_call'.op = "handle_incoming" =>
              /\ eng_call'.result = "Ok"
              /\ \A w \in wire \ wire' : Delivered(engines'[w.to], w.msg)
           /\ \A s \in Slots : Constructed(s) => StoresKept(engines[s], engines'[s])]_vars

\* a round-2 message was accepted by a party that still waits for a round-1
\* broadcast
C35_Witness ==
    \E s \in Slots :
        /\ eng_call = Call("handle_incoming", s, "Ok")
        /\ engines[s].round.tag \in {"Round0", "Round1"}
        /\ wants_more(engines[s].msgs1, engines[s].party_n)
        /\ engines[s].msgs2.present /\ engines[s].msgs2.msgs # {}

\* C36: when all n parties run a keygen or one nonce batch in one room, every
\* message sent is delivered and every driver keeps calling proceed while
\* wants_to_proceed holds, every party reaches Final and hands out its output.
C36_EveryPartyFinishes ==
    \A s \in Slots : Constructed(s) ~> (picked[s] >= 1 /\ engines[s].round.tag = "Gone")

\* every party of a run of RunN parties has handed out its output
C36_Witness ==
    \A s \in 1..RunN : picked[s] >= 1 /\ engines[s].party_n = RunN

(* ------------------- claims on the rounds of one party ----------------- *)
Output(rnd) == SelectSeq(party_round.output, LAMBDA m : m.round = rnd)

\* C34: in a complete run party i enqueues exactly one broadcast in round 0
\* and, in round 1, exactly one P2P message for each peer j # i and none for
\* itself; in the offline protocol every message carries K entries, the k-th
\* entry of a P2P message being the share of nonce k for its receiver
C34_OneMessagePerPeer ==
    party_round.stage \in {"Round2", "Final"} =>
        LET r == party_round
            p2p == Output(2)
        IN /\ Len(Output(1)) = 1
           /\ Output(1)[1].receiver = 0 /\ Output(1)[1].sender = r.party_i
           /\ Len(p2p) = r.n - 1
           /\ \A j \in (1..r.n) \ {r.party_i} :
                 Cardinality({k \in DOMAIN p2p : p2p[k].receiver = j}) = 1
           /\ \A k \in DOMAIN p2p : p2p[k].receiver # r.party_i /\ p2p[k].sender = r.party_i
           /\ r.kind = "offline" =>
                 /\ Len(Output(1)[1].body) = r.no_nonces
                 /\ \A k \in DOMAIN p2p :
                       /\ Len(p2p[k].body) = r.no_nonces
                       /\ \A x \in 1..r.no_nonces :
                             p2p[k].body[x] = Share(x - 1, p2p[k].receiver)

\* an offline run of three parties or more with two nonces or more
C34_Witness ==
    /\ party_round.stage = "Final" /\ party_round.kind = "offline"
    /\ party_round.n >= 3 /\ party_round.no_nonces >= 2

\* C39: in round 0 of the offline protocol the nonce of position k is derived
\* from (keypair, empty message, party_i, k), so no two positions of a batch
\* are derived from the same inputs
C39_PositionIsDerivationInput ==
    (party_round.stage # "none" /\ party_round.kind = "offline"
                                /\ Len(Output(1)) = 1) =>
        LET body == Output(1)[1].body
        IN \A x, y \in DOMAIN body : x # y => body[x].R # body[y].R

====
